---- MODULE Spec2Model ----
(***************************************************************************)
(* Verification model of the osFree SMP core:                              *)
(*   - the ticket spinlock            (include/os3/spinlock.h)             *)
(*   - the NUMA buddy page allocator  (kernel/mm/numa.c)                   *)
(*   - the per-CPU run-queue scheduler (kernel/sched/scheduler.c) and the  *)
(*     OS/2 thread API on top of it   (os3/api/doscalls_thread.c)          *)
(* Each subsystem has its own specification over its own variables:        *)
(*   LockSpec, NumaSpec and Spec (the scheduler).                          *)
(***************************************************************************)
EXTENDS Integers, Sequences, FiniteSets, TLC

VARIABLES
    \* ---- ticket spinlock ----
    lock,       \* [head, tail]: the two 16-bit halves of spinlock_t.head_tail
    lcpu,       \* per CPU: position in spin_lock/spin_trylock/critical section
    lhist,      \* history: number of tickets drawn so far
    \* ---- NUMA page allocator ----
    npage,      \* struct page per page frame: PAGE_FLAG_BUDDY and order
    nlink,      \* the list_head of every page and of every free_list[order]
    free_count, \* numa_mem_info_t.free_count[order], per node
    free_pages, \* numa_mem_info_t.free_pages, per node
    held,       \* blocks <<pfn, order>> owned by callers (not by the allocator)
    nfault,     \* the kernel dereferenced a null or bogus pointer
    nops,       \* history: number of allocator calls so far
    nlast,      \* history: the last allocator call and what it saw before
    ndistance,  \* numa_topo.distance[i][j]
    \* ---- scheduler ----
    thr,             \* thread_t of every thread
    rlink,           \* run_list of every thread and the non-empty list heads
    qcount,          \* rq->queues[c][p].count, per list head, where not 0
    nr_running,      \* rq->nr_running, per CPU
    active_bitmap,   \* rq->active_bitmap[c], per CPU, as the set of set bits
    class_bitmap,    \* rq->class_bitmap, per CPU, as the set of set bits
    rq_current,      \* rq->current and cpu_info->current_thread, per CPU
    ipi,             \* CPUs with a reschedule IPI pending
    sfault,          \* the kernel dereferenced a bad pointer or loops for ever
    preempt_counter, \* the per-CPU preemption counter
    now,             \* get_time_ns(), in milliseconds
    waiting,         \* history: per queue, the threads put on it, longest wait first
    slast,           \* history: the last call and the schedule() it made
    heap,            \* thread_t structures kmalloc can still hand out
    sops,            \* history: number of scheduler and API calls still to come
    \* ---- SMP bring-up ----
    cpu_state,       \* smp_info.cpus[i]: none, kfree'd, or the state of the record
    online_mask,     \* smp_info.online_mask
    active_mask,     \* smp_info.active_mask
    cpu_count,       \* smp_info.cpu_count
    runqueues,       \* scheduler.runqueues[i] is not NULL
    madt,            \* the APs whose MADT entry is enabled
    ap_boot_cpu_id,  \* the static ap_boot_cpu_id
    ap_boot_done,    \* the static ap_boot_done
    bsp,             \* the BSP's place in smp_init/smp_boot_cpu, i and timeout
    ap,              \* per AP: its place in ap_entry and its local cpu_id
    intime,          \* history: APs that set ap_boot_done inside their wait loop
    bfault,          \* an AP used a cpu_info_t that was kfree'd
    \* ---- critical sections of the process ----
    critsec_count,   \* process_t.critsec_count
    critsec_lock,    \* process_t.critsec_lock: [head, tail] of the ticket lock
    cspin,           \* threads spinning in DosEnterCritSec, with their tickets
    centered,        \* history: per thread, its enters not yet matched by an exit
    cret,            \* the APIRET of the last DosEnterCritSec/DosExitCritSec
    \* ---- priority arithmetic of one thread ----
    pthr,            \* the priority fields of a thread_t
    pcall,           \* history: the last priority call, its arguments and result
    pops,            \* history: number of priority calls still to come
    \* ---- the locks each CPU holds ----
    klock,           \* per node lock, run-queue lock and global_lock: its holder
    kstack,          \* per CPU: the frames of the functions it is inside
    kif,             \* per CPU: the interrupt flag
    \* ---- cross-CPU function calls ----
    smp_ipi,         \* smp_info.ipi_func, ipi_arg and ipi_pending
    smp_lock,        \* smp_info.global_lock: its holder
    ccpu,            \* per CPU: its place in smp_call_function, func and wait
    cirr,            \* CPUs with a call-function IPI pending
    cowed,           \* history: <<func, cpu>> for every IPI sent and not yet handled
    ccalls,          \* history: number of smp_call_function calls still to come
    \* ---- read-write spinlock ----
    rw_count,        \* rwlock_t.count: 0 unlocked, > 0 readers, -1 writer
    rw_wait,         \* rwlock_t.wait: its holder, then the CPUs spinning, in ticket order
    rwcpu,           \* per CPU: its place in read_lock/write_lock and the count it read
    \* ---- CPU choices on the machine smp_init leaves ----
    placed,          \* history: the last enqueue_thread, its thread and the CPU it chose
    picked           \* history: the last scan of trigger_load_balance and its choice

lockVars == <<lock, lcpu, lhist>>

numaVars == <<npage, nlink, free_count, free_pages, held, nfault, nops, nlast, ndistance>>

schedVars == <<thr, rlink, qcount, nr_running, active_bitmap, class_bitmap, rq_current,
               ipi, sfault, preempt_counter, now, waiting, slast, heap, sops>>

bootVars == <<cpu_state, online_mask, active_mask, cpu_count, runqueues, madt,
              ap_boot_cpu_id, ap_boot_done, bsp, ap, intime, bfault>>

critVars == <<critsec_count, critsec_lock, cspin, centered, cret>>

prioVars == <<pthr, pcall, pops>>

orderVars == <<klock, kstack, kif>>

callVars == <<smp_ipi, smp_lock, ccpu, cirr, cowed, ccalls>>

rwVars == <<rw_count, rw_wait, rwcpu>>

pickVars == <<placed, picked>>

\* The units that are checked on their own.
unitVars == <<prioVars, orderVars, callVars, rwVars, pickVars>>

vars == <<lock, lcpu, lhist, npage, nlink, free_count, free_pages, held, nfault, nops, nlast,
          ndistance,
          thr, rlink, qcount, nr_running, active_bitmap, class_bitmap, rq_current,
          ipi, sfault, preempt_counter, now, waiting, slast, heap, sops,
          cpu_state, online_mask, active_mask, cpu_count, runqueues, madt,
          ap_boot_cpu_id, ap_boot_done, bsp, ap, intime, bfault,
          critsec_count, critsec_lock, cspin, centered, cret,
          pthr, pcall, pops, klock, kstack, kif,
          smp_ipi, smp_lock, ccpu, cirr, cowed, ccalls,
          rw_count, rw_wait, rwcpu, placed, picked>>

\* A step of one subsystem leaves the others alone.
LockOnly == UNCHANGED <<numaVars, schedVars, bootVars, critVars, unitVars>>
NumaOnly == UNCHANGED <<lockVars, schedVars, bootVars, critVars, unitVars>>
SchedOnly == UNCHANGED <<lockVars, numaVars, bootVars, critVars, unitVars>>
BootOnly == UNCHANGED <<lockVars, numaVars, schedVars, critVars, unitVars>>
\* A critical-section call changes the process and the scheduler.
CritOnly == UNCHANGED <<lockVars, numaVars, bootVars, unitVars>>
\* The rest of the kernel, for a unit that is checked on its own.
KernelQuiet == UNCHANGED <<lockVars, numaVars, schedVars, bootVars, critVars>>
PrioOnly == KernelQuiet /\ UNCHANGED <<orderVars, callVars, rwVars, pickVars>>
OrderOnly == KernelQuiet /\ UNCHANGED <<prioVars, callVars, rwVars, pickVars>>
CallOnly == KernelQuiet /\ UNCHANGED <<prioVars, orderVars, rwVars, pickVars>>
RwOnly == KernelQuiet /\ UNCHANGED <<prioVars, orderVars, callVars, pickVars>>
\* A CPU choice reads the machine smp_init left and changes nothing of it.
PickOnly == KernelQuiet /\ UNCHANGED <<prioVars, orderVars, callVars, rwVars>>

(***************************************************************************)
(*            SMP BRING-UP: kernel/smp/smp.c                               *)
(*                                                                         *)
(* The boot processor (BSP, CPU 0) runs smp_init and, for every enabled    *)
(* MADT entry, smp_boot_cpu; each application processor (AP) that receives *)
(* the STARTUP IPI runs ap_entry in its own time.  ap_boot_lock is taken   *)
(* by the BSP alone and never contended, so it is left out.                *)
(***************************************************************************)
NBootCpus == 4
\* Passes of the wait loop of smp_boot_cpu before it gives up (1000 in the
\* source, one millisecond each).
TimeoutTicks == 2
BootCpus == 0 .. (NBootCpus - 1)
BootAps == 1 .. (NBootCpus - 1)

BootInit ==
    /\ cpu_state = [c \in BootCpus |-> "None"]
    /\ online_mask = {}
    /\ active_mask = {}
    /\ cpu_count = 0
    /\ runqueues = [c \in BootCpus |-> FALSE]
    /\ madt = {}
    /\ ap_boot_cpu_id = 0
    /\ ap_boot_done = 0
    /\ bsp = [pc |-> "smp_init", i |-> 0, timeout |-> 0]
    /\ ap = [h \in BootAps |-> [pc |-> "halted", cpu_id |-> 0]]
    /\ intime = {}
    /\ bfault = FALSE

\* The machine after smp_init where every MADT entry is enabled and the
\* APs in up came up: the others failed at the first kmalloc_node of
\* smp_boot_cpu and never got a STARTUP IPI; the APs that got one answered
\* at once and sit in their idle loops, with a run queue each.
PickBoot(up) ==
    LET last == IF up = {} THEN 0 ELSE CHOOSE h \in up : \A g \in up : g <= h
    IN  /\ cpu_state = [c \in BootCpus |-> IF c = 0 \/ c \in up THEN "Online" ELSE "None"]
        /\ online_mask = {0} \cup up
        /\ active_mask = {0} \cup up
        /\ cpu_count = 1 + Cardinality(up)
        /\ runqueues = [c \in BootCpus |-> c = 0 \/ c \in up]
        /\ madt = BootAps
        /\ ap_boot_cpu_id = last
        /\ ap_boot_done = IF up = {} THEN 0 ELSE 1
        /\ bsp = [pc |-> "done", i |-> NBootCpus,
                  timeout |-> IF up = {} THEN 0 ELSE TimeoutTicks]
        /\ ap = [h \in BootAps |-> IF h \in up THEN [pc |-> "idle", cpu_id |-> h]
                                   ELSE [pc |-> "halted", cpu_id |-> 0]]
        /\ intime = up
        /\ bfault = FALSE

\* smp_init up to the point where the BSP is marked online.  parsed: the
\* outcome of acpi_parse_madt; enabled: the APs whose MADT entry has
\* MADT_LAPIC_ENABLED; alloc: the outcome of kmalloc for cpus[0].
smp_init(parsed, enabled, alloc) ==
    /\ ~bfault
    /\ bsp.pc = "smp_init"
    /\ IF ~parsed
       THEN /\ cpu_count' = 1
            /\ bsp' = [bsp EXCEPT !.pc = "done"]
            /\ UNCHANGED <<cpu_state, online_mask, active_mask, madt>>
       ELSE IF ~alloc
       THEN /\ bsp' = [bsp EXCEPT !.pc = "done"]
            /\ madt' = enabled
            /\ UNCHANGED <<cpu_state, online_mask, active_mask, cpu_count>>
       ELSE /\ madt' = enabled
            /\ cpu_state' = [cpu_state EXCEPT ![0] = "Online"]
            /\ online_mask' = online_mask \cup {0}
            /\ active_mask' = active_mask \cup {0}
            /\ cpu_count' = 1
            /\ bsp' = [bsp EXCEPT !.pc = "lapic_init"]
    /\ UNCHANGED <<runqueues, ap_boot_cpu_id, ap_boot_done, ap, intime, bfault>>
    /\ BootOnly

\* smp_init from lapic_init to the head of the AP loop.  lapic, ioapic,
\* sched: the outcomes of lapic_init, ioapic_init and sched_init_cpu(0),
\* the last of which smp_init does not look at.
smp_init_apic(lapic, ioapic, sched) ==
    /\ ~bfault
    /\ bsp.pc = "lapic_init"
    /\ IF ~lapic \/ ~ioapic
       THEN /\ bsp' = [bsp EXCEPT !.pc = "done"]
            /\ UNCHANGED runqueues
       ELSE /\ runqueues' = [c \in BootCpus |-> c = 0 /\ sched]
            /\ bsp' = [bsp EXCEPT !.pc = "boot_aps", !.i = 1]
    /\ UNCHANGED <<cpu_state, online_mask, active_mask, cpu_count, madt,
                   ap_boot_cpu_id, ap_boot_done, ap, intime, bfault>>
    /\ BootOnly

\* The AP loop of smp_init where it does not call smp_boot_cpu: the end of
\* the loop, or an entry that is not enabled.
smp_init_loop ==
    /\ ~bfault
    /\ bsp.pc = "boot_aps"
    /\ bsp.i >= NBootCpus \/ bsp.i \notin madt
    /\ bsp' = IF bsp.i >= NBootCpus THEN [bsp EXCEPT !.pc = "done"]
                                    ELSE [bsp EXCEPT !.i = @ + 1]
    /\ UNCHANGED <<cpu_state, online_mask, active_mask, cpu_count, runqueues, madt,
                   ap_boot_cpu_id, ap_boot_done, ap, intime, bfault>>
    /\ BootOnly

\* smp_boot_cpu(i) up to the second STARTUP IPI.  alloc, stack: the outcomes
\* of the two kmalloc_node calls.  A record that was kfree'd stays in
\* smp_info.cpus[] as "Freed".
smp_boot_cpu(alloc, stack) ==
    /\ ~bfault
    /\ bsp.pc = "boot_aps"
    /\ bsp.i < NBootCpus /\ bsp.i \in madt
    /\ IF ~alloc
       THEN /\ bsp' = [bsp EXCEPT !.i = @ + 1]
            /\ UNCHANGED <<cpu_state, ap_boot_cpu_id, ap_boot_done, ap>>
       ELSE /\ ap_boot_cpu_id' = bsp.i
            /\ ap_boot_done' = 0
            /\ IF ~stack
               THEN /\ cpu_state' = [cpu_state EXCEPT ![bsp.i] = "Freed"]
                    /\ bsp' = [bsp EXCEPT !.i = @ + 1]
                    /\ UNCHANGED ap
               ELSE /\ cpu_state' = [cpu_state EXCEPT ![bsp.i] = "Starting"]
                    /\ ap' = [ap EXCEPT ![bsp.i].pc = "started"]
                    /\ bsp' = [bsp EXCEPT !.pc = "wait", !.timeout = TimeoutTicks]
    /\ UNCHANGED <<online_mask, active_mask, cpu_count, runqueues, madt, intime, bfault>>
    /\ BootOnly

\* One pass of the wait loop: mdelay(1); timeout--.
smp_boot_cpu_wait ==
    /\ ~bfault
    /\ bsp.pc = "wait"
    /\ ap_boot_done = 0 /\ bsp.timeout > 0
    /\ bsp' = [bsp EXCEPT !.timeout = @ - 1]
    /\ UNCHANGED <<cpu_state, online_mask, active_mask, cpu_count, runqueues, madt,
                   ap_boot_cpu_id, ap_boot_done, ap, intime, bfault>>
    /\ BootOnly

\* The wait loop is left: smp_boot_cpu tests ap_boot_done and returns, and
\* smp_init counts the CPU if it returned 0.
smp_boot_cpu_finish ==
    /\ ~bfault
    /\ bsp.pc = "wait"
    /\ ap_boot_done # 0 \/ bsp.timeout = 0
    /\ IF ap_boot_done = 0
       THEN /\ cpu_state' = [cpu_state EXCEPT ![bsp.i] = "Offline"]
            /\ UNCHANGED <<online_mask, active_mask, cpu_count>>
       ELSE /\ cpu_state' = [cpu_state EXCEPT ![bsp.i] = "Online"]
            /\ online_mask' = online_mask \cup {bsp.i}
            /\ active_mask' = active_mask \cup {bsp.i}
            /\ cpu_count' = cpu_count + 1
    /\ bsp' = [bsp EXCEPT !.pc = "boot_aps", !.i = @ + 1]
    /\ UNCHANGED <<runqueues, madt, ap_boot_cpu_id, ap_boot_done, ap, intime, bfault>>
    /\ BootOnly

\* AP h enters ap_entry and reads ap_boot_cpu_id and smp_info.cpus[cpu_id],
\* which it writes to; a record that was kfree'd is a bad pointer.
ap_entry(h) ==
    /\ ~bfault
    /\ ap[h].pc = "started"
    /\ ap' = [ap EXCEPT ![h] = [pc |-> "sched_init_cpu", cpu_id |-> ap_boot_cpu_id]]
    /\ bfault' = (cpu_state[ap_boot_cpu_id] \in {"None", "Freed"})
    /\ UNCHANGED <<cpu_state, online_mask, active_mask, cpu_count, runqueues, madt,
                   ap_boot_cpu_id, ap_boot_done, bsp, intime>>
    /\ BootOnly

\* AP h calls sched_init_cpu(cpu_id), which stores a run queue or fails, and
\* does not look at the result.
ap_sched_init_cpu(h, sched) ==
    /\ ~bfault
    /\ ap[h].pc = "sched_init_cpu"
    /\ runqueues' = [runqueues EXCEPT ![ap[h].cpu_id] = @ \/ sched]
    /\ ap' = [ap EXCEPT ![h].pc = "signal"]
    /\ UNCHANGED <<cpu_state, online_mask, active_mask, cpu_count, madt,
                   ap_boot_cpu_id, ap_boot_done, bsp, intime, bfault>>
    /\ BootOnly

\* AP h sets ap_boot_done and goes to its idle loop.  intime records the APs
\* that did so while the BSP was waiting for them in smp_boot_cpu.
ap_signal(h) ==
    /\ ~bfault
    /\ ap[h].pc = "signal"
    /\ ap_boot_done' = 1
    /\ ap' = [ap EXCEPT ![h].pc = "idle"]
    /\ intime' = IF bsp.pc = "wait" /\ bsp.i = h THEN intime \cup {h} ELSE intime
    /\ UNCHANGED <<cpu_state, online_mask, active_mask, cpu_count, runqueues, madt,
                   ap_boot_cpu_id, bsp, bfault>>
    /\ BootOnly

BootNext ==
    \/ \E parsed \in BOOLEAN, enabled \in SUBSET BootAps, alloc \in BOOLEAN :
          smp_init(parsed, enabled, alloc)
    \/ \E lapic \in BOOLEAN, ioapic \in BOOLEAN, sched \in BOOLEAN :
          smp_init_apic(lapic, ioapic, sched)
    \/ smp_init_loop
    \/ \E alloc \in BOOLEAN, stack \in BOOLEAN : smp_boot_cpu(alloc, stack)
    \/ smp_boot_cpu_wait
    \/ smp_boot_cpu_finish
    \/ \E h \in BootAps : ap_entry(h)
    \/ \E h \in BootAps, sched \in BOOLEAN : ap_sched_init_cpu(h, sched)
    \/ \E h \in BootAps : ap_signal(h)

\* The null pointer.  List nodes are numbered: entries first, then heads.
NULL == 0 - 1

(***************************************************************************)
(* Intrusive circular doubly linked lists (os3/list.h).  L maps every list *)
(* node (an entry or a list head) to its [next, prev] pointers; the writes *)
(* happen in the order of the C code, so that an entry that is added while *)
(* it is still linked, or deleted while it is not, damages the list the    *)
(* way the code does.                                                      *)
(***************************************************************************)
\* A node the map does not list is an empty list head: it points to itself.
Node(L, n) == IF n \in DOMAIN L THEN L[n] ELSE [next |-> n, prev |-> n]

SetNext(L, n, v) ==
    [x \in DOMAIN L \cup {n} |-> IF x = n THEN [Node(L, n) EXCEPT !.next = v] ELSE L[x]]
SetPrev(L, n, v) ==
    [x \in DOMAIN L \cup {n} |-> IF x = n THEN [Node(L, n) EXCEPT !.prev = v] ELSE L[x]]

\* __list_add(new, prev, next)
list_insert(L, new, prev, next) ==
    SetNext(SetPrev(SetNext(SetPrev(L, next, new), new, next), new, prev), prev, new)

\* list_add(new, head): insert right after head
list_add(L, new, head) == list_insert(L, new, head, Node(L, head).next)

\* list_add_tail(new, head): insert right before head
list_add_tail(L, new, head) == list_insert(L, new, Node(L, head).prev, head)

\* list_del dereferences entry->next and entry->prev
list_linked(L, e) == Node(L, e).next # NULL /\ Node(L, e).prev # NULL

\* list_del(entry): the neighbours are joined, the entry keeps its pointers
list_del(L, e) ==
    SetNext(SetPrev(L, Node(L, e).next, Node(L, e).prev), Node(L, e).prev, Node(L, e).next)

\* list_del_init(entry): list_del, then INIT_LIST_HEAD(entry)
list_del_init(L, e) == SetPrev(SetNext(list_del(L, e), e, e), e, e)

\* list_empty(head)
list_empty(L, h) == Node(L, h).next = h

\* The entries met by following next from head h, at most fuel of them (a
\* damaged list need not lead back to its head).
RECURSIVE ListFrom(_, _, _, _)
ListFrom(L, h, n, fuel) ==
    IF n = h \/ n = NULL \/ fuel = 0 THEN <<>>
    ELSE <<n>> \o ListFrom(L, h, Node(L, n).next, fuel - 1)

SeqToSet(q) == {q[i] : i \in 1 .. Len(q)}

(***************************************************************************)
(*                         TICKET SPINLOCK                                 *)
(***************************************************************************)

\* Number of CPUs contending for the lock.
NLockCpus == 3
\* Total number of tickets drawn in one behaviour.
MaxTickets == 5

LockCpus == 0 .. (NLockCpus - 1)

\* uint16_t head, tail
TicketMod == 65536

\* The union of spinlock_t: the 32-bit word head_tail, head in its low half
\* (old & 0xFFFF) and tail in its high half (old >> 16), kept as the pair.
head_tail(l) == [head |-> l.head, tail |-> l.tail]

\* spin_trylock's test "lock is free": (old >> 16) == (old & 0xFFFF).
TryFreeAlways(old) == TRUE
TryFree(old) == old.tail = old.head

\* A spin_trylock that stores the word it read.
TryNewSame(old) == old

\* spin_trylock's new word: old + 0x10000 in 32 bits (the carry out of the
\* high half is lost).
TryNew(old) == [head |-> old.head, tail |-> (old.tail + 1) % TicketMod]

\* Number of tickets outstanding (holder and waiters): tail - head in 16 bits.
Outstanding(l) == (l.tail - l.head + TicketMod) % TicketMod

LockNoWord == [head |-> 0, tail |-> 0]

LockIdleCpu == [pc |-> "out", ticket |-> 0, old |-> LockNoWord, seq |-> 0, ahead |-> 0, waited |-> 0]

\* spin_lock_init leaves head = tail = 0; a lock that has been taken and
\* released v times has head = tail = v mod 2^16.
LockInit ==
    /\ lock \in {[head |-> v, tail |-> v] : v \in {0, TicketMod - 2}}
    /\ lcpu = [c \in LockCpus |-> LockIdleCpu]
    /\ lhist = 0

\* The lock of the other specifications: initialised and never taken.
LockQuiet ==
    /\ lock = [head |-> 0, tail |-> 0]
    /\ lcpu = [c \in LockCpus |-> LockIdleCpu]
    /\ lhist = 0

\* spin_lock, first half: ticket = fetch_add(&lock->tail, 1).
spin_lock_ticket(c) ==
    /\ lcpu[c].pc = "out"
    /\ lhist < MaxTickets
    /\ lock' = [lock EXCEPT !.tail = (lock.tail + 1) % TicketMod]
    /\ lcpu' = [lcpu EXCEPT ![c] = [pc |-> "spin", ticket |-> lock.tail, old |-> LockNoWord,
                                    seq |-> lhist + 1, ahead |-> Outstanding(lock),
                                    waited |-> 0]]
    /\ lhist' = lhist + 1
    /\ LockOnly

\* spin_lock, second half: the spin loop ends when head == ticket.
spin_lock_enter(c) ==
    /\ lcpu[c].pc = "spin"
    /\ lock.head = lcpu[c].ticket
    /\ lcpu' = [lcpu EXCEPT ![c].pc = "cs"]
    /\ UNCHANGED <<lock, lhist>>
    /\ LockOnly

\* spin_unlock by the holder: fetch_add(&lock->head, 1).
spin_unlock(c) ==
    /\ lcpu[c].pc = "cs"
    /\ lock' = [lock EXCEPT !.head = (lock.head + 1) % TicketMod]
    /\ lcpu' = [d \in LockCpus |->
                  IF d = c THEN LockIdleCpu
                  ELSE IF lcpu[d].pc = "spin"
                       THEN [lcpu[d] EXCEPT !.waited = @ + 1]
                       ELSE lcpu[d]]
    /\ UNCHANGED lhist
    /\ LockOnly

\* spin_trylock, first half: old = load(head_tail); return 0 if not free.
spin_trylock_load(c) ==
    /\ lcpu[c].pc = "out"
    /\ lhist < MaxTickets
    /\ IF TryFree(head_tail(lock))
       THEN lcpu' = [lcpu EXCEPT ![c].pc = "try", ![c].old = head_tail(lock)]
       ELSE lcpu' = lcpu
    /\ UNCHANGED <<lock, lhist>>
    /\ LockOnly

\* spin_trylock, second half: compare_exchange(head_tail, old, old + 0x10000).
spin_trylock_cas(c) ==
    /\ lcpu[c].pc = "try"
    /\ IF head_tail(lock) = lcpu[c].old
       THEN /\ lock' = TryNew(lcpu[c].old)
            /\ lcpu' = [lcpu EXCEPT ![c] = [pc |-> "cs", ticket |-> lcpu[c].old.tail,
                                            old |-> LockNoWord, seq |-> lhist + 1,
                                            ahead |-> 0, waited |-> 0]]
            /\ lhist' = lhist + 1
       ELSE /\ lcpu' = [lcpu EXCEPT ![c] = LockIdleCpu]
            /\ UNCHANGED <<lock, lhist>>
    /\ LockOnly

LockNext ==
    \/ \E c \in LockCpus : spin_lock_ticket(c)
    \/ \E c \in LockCpus : spin_lock_enter(c)
    \/ \E c \in LockCpus : spin_unlock(c)
    \/ \E c \in LockCpus : spin_trylock_load(c)
    \/ \E c \in LockCpus : spin_trylock_cas(c)


(***************************************************************************)
(*                       NUMA BUDDY PAGE ALLOCATOR                         *)
(***************************************************************************)

\* Number of buddy orders (os3/memory.h), scaled down.
MAX_ORDER == 3
\* numa_topo.num_nodes
NumNodes == 3
\* Total number of allocator calls in one behaviour.
MaxNumaOps == 6

Pow2(k) == 2 ^ k

Orders == 0 .. (MAX_ORDER - 1)
NumaNodes == 0 .. (NumNodes - 1)

\* Every node owns one naturally aligned block of the highest order.
PagesPerNode == Pow2(MAX_ORDER - 1)
Pfns == 0 .. (NumNodes * PagesPerNode - 1)

\* page->numa_node
PageNode(pfn) == pfn \div PagesPerNode

\* &nmi->free_list[order] of node n: the list nodes after the pages
FreeList(n, k) == NumNodes * PagesPerNode + n * MAX_ORDER + k
NumaHeads == {FreeList(n, k) : n \in NumaNodes, k \in Orders}

\* pfn ^ (1 << order)
BuddyPfn(pfn, k) ==
    IF (pfn \div Pow2(k)) % 2 = 0 THEN pfn + Pow2(k) ELSE pfn - Pow2(k)

\* numa_init without a SLIT: local = 10, remote = 20.
DefaultDistance == [i \in NumaNodes |-> [j \in NumaNodes |-> IF i = j THEN 10 ELSE 20]]

\* numa_init with a SLIT: acpi_get_numa_distance(i, j) of a firmware table
\* with local distance 10 and remote distances 20 and 30.
SlitDistance ==
    [i \in NumaNodes |-> [j \in NumaNodes |->
        IF i = j THEN 10 ELSE 20 + 10 * ((i + j) % 2)]]

\* numa_topo.distance[i][j]
distance(i, j) == ndistance[i][j]

\* One pass of the bubble sort of numa_build_fallback_order over row i:
\* positions k = 1 .. last, swapping neighbours that are out of order.
RECURSIVE BubblePass(_, _, _, _)
BubblePass(i, row, k, last) ==
    IF k > last THEN row
    ELSE IF distance(i, row[k]) > distance(i, row[k + 1])
         THEN BubblePass(i, [row EXCEPT ![k] = row[k + 1], ![k + 1] = row[k]], k + 1, last)
         ELSE BubblePass(i, row, k + 1, last)

RECURSIVE BubbleSort(_, _, _)
BubbleSort(i, row, j) ==
    IF j >= NumNodes - 1 THEN row
    ELSE BubbleSort(i, BubblePass(i, row, 1, NumNodes - j - 1), j + 1)

\* The row as it is before the sort: the node indices in ascending order.
FallbackByIndex(i) == [j \in 1 .. NumNodes |-> j - 1]

\* numa_topo.fallback[i][0 .. num_nodes-1], as the sequence 1 .. num_nodes
fallback(i) == BubbleSort(i, [j \in 1 .. NumNodes |-> j - 1], 0)

\* An unsigned 32-bit counter is kept as the integer of least absolute
\* value congruent to it modulo 2^32: 0 - 1 is kept as -1 (it is 2^32 - 1).
\* "count > 0" on such a counter is "count != 0".
CountPositive(c) == c # 0

\* The allocator state as one value, so that the steps of a call compose.
NumaState == [page |-> npage, link |-> nlink, count |-> free_count,
              fp |-> free_pages, fault |-> nfault]

\* Result of a call: the state, the page returned (NULL if none) and, for
\* the history, the node that served it and the order of the block popped.
NoPage(st) == [st |-> st, ptr |-> NULL, node |-> NULL, from |-> NULL]

\* list_first_entry, list_del, free_count[i]--: pop the first block of
\* free_list[i] of node n.  With free_count[i] != 0 and the list empty,
\* list_first_entry yields a pointer into the list head itself: a bogus
\* struct page.
PopFault(st, n, i) ==
    LET page == st.link[FreeList(n, i)].next
    IN  page \notin Pfns \/ ~list_linked(st.link, page)

PopFirst(st, n, i) ==
    LET page == st.link[FreeList(n, i)].next
    IN  [st EXCEPT !.link = list_del(st.link, page),
                   !.count[n][i] = @ - 1]

\* The split loop of numa_alloc_pages: while (i > order) { i--; buddy =
\* page + (1 << i); list_add(buddy, free_list[i]); free_count[i]++; }
RECURSIVE SplitBlock(_, _, _, _, _)
SplitBlock(st, n, page, i, order) ==
    IF i <= order THEN st
    ELSE SplitBlock([st EXCEPT !.link = list_add(st.link, page + Pow2(i - 1), FreeList(n, i - 1)),
                               !.count[n][i - 1] = @ + 1],
                    n, page, i - 1, order)

\* nmi->free_pages -= (1 << order)
TakePages(st, n, order) == [st EXCEPT !.fp[n] = @ - Pow2(order)]

\* numa_alloc_pages_strict(node, order)
AllocStrict(st, n, order) ==
    IF CountPositive(st.count[n][order])
    THEN IF PopFault(st, n, order)
         THEN NoPage([st EXCEPT !.fault = TRUE])
         ELSE [st |-> TakePages(PopFirst(st, n, order), n, order),
               ptr |-> st.link[FreeList(n, order)].next, node |-> n, from |-> order]
    ELSE NoPage(st)

\* The loop "try higher orders on same node (splitting)" from order i on.
RECURSIVE AllocSplit(_, _, _, _)
AllocSplit(st, n, order, i) ==
    IF i >= MAX_ORDER THEN NoPage(st)
    ELSE IF CountPositive(st.count[n][i])
         THEN IF PopFault(st, n, i)
              THEN NoPage([st EXCEPT !.fault = TRUE])
              ELSE LET page == st.link[FreeList(n, i)].next
                   IN  [st |-> TakePages(SplitBlock(PopFirst(st, n, i), n, page, i, order),
                                         n, order),
                        ptr |-> page, node |-> n, from |-> i]
         ELSE AllocSplit(st, n, order, i + 1)

\* The loop "try fallback nodes in distance order" from position i on
\* (fallback[node][i], i = 1 .. num_nodes-1, is element i + 1 of the row).
RECURSIVE AllocFallback(_, _, _, _)
AllocFallback(st, n, order, i) ==
    IF i >= NumNodes THEN NoPage(st)
    ELSE LET r == AllocStrict(st, fallback(n)[i + 1], order)
         IN  IF r.ptr # NULL \/ r.st.fault THEN r
             ELSE AllocFallback(st, n, order, i + 1)

\* numa_alloc_pages(node, order), numa_enabled
AllocPages(st, n, order) ==
    LET r1 == AllocStrict(st, n, order)
    IN  IF r1.ptr # NULL \/ r1.st.fault THEN r1
        ELSE LET r2 == AllocSplit(st, n, order, order + 1)
             IN  IF r2.ptr # NULL \/ r2.st.fault THEN r2
                 ELSE AllocFallback(st, n, order, 1)

\* What a merge step of numa_free_pages does to order: order++
MergedOrder(order) == order + 1

\* The merge loop of numa_free_pages on node n, block (pfn, order).
RECURSIVE FreeMerge(_, _, _, _)
FreeMerge(st, n, pfn, order) ==
    IF order < MAX_ORDER - 1
    THEN LET b == BuddyPfn(pfn, order)
         IN  IF st.page[b].buddy /\ st.page[b].order = order
             THEN IF ~list_linked(st.link, b)
                  THEN [st |-> [st EXCEPT !.fault = TRUE], pfn |-> pfn, order |-> order]
                  ELSE FreeMerge([st EXCEPT !.link = list_del(st.link, b),
                                            !.count[n][order] = @ - 1,
                                            !.page[b].buddy = FALSE],
                                 n, IF b < pfn THEN b ELSE pfn, MergedOrder(order))
             ELSE [st |-> st, pfn |-> pfn, order |-> order]
    ELSE [st |-> st, pfn |-> pfn, order |-> order]

\* What numa_free_pages adds to free_pages: 1 << order, order being the
\* order of the merged block.
FreedPages(order, merged) == Pow2(merged)

\* numa_free_pages(page_to_virt(pfn), order)
FreePages(st, pfn, order) ==
    LET n == PageNode(pfn)
        m == FreeMerge(st, n, pfn, order)
    IN  IF m.st.fault THEN m.st
        ELSE [m.st EXCEPT !.page[m.pfn] = [buddy |-> TRUE, order |-> m.order],
                          !.link = list_add(m.st.link, m.pfn, FreeList(n, m.order)),
                          !.count[n][m.order] = @ + 1,
                          !.fp[n] = @ + FreedPages(order, m.order)]

\* The blocks on free_list[k] of node n, first to last.
FreeBlocks(L, n, k) == ListFrom(L, FreeList(n, k), L[FreeList(n, k)].next, Cardinality(Pfns) + 1)

NumaInstall(st) ==
    /\ npage' = st.page
    /\ nlink' = st.link
    /\ free_count' = st.count
    /\ free_pages' = st.fp
    /\ nfault' = st.fault
    /\ ndistance' = ndistance

\* The history record of a call: what was asked (req, order), what came
\* back (ptr, from node "node", popped at order "from"), and free_pages and
\* the free lists of every node as they were before the call.
NoLists == [n \in NumaNodes |-> [k \in Orders |-> <<>>]]
NoCall == [op |-> "none", req |-> NULL, order |-> NULL, ptr |-> NULL, node |-> NULL,
           from |-> NULL, fp |-> [n \in NumaNodes |-> 0], lists |-> NoLists]
ListsNow == [n \in NumaNodes |-> [k \in Orders |-> FreeBlocks(nlink, n, k)]]

\* numa_init with distance matrix d leaves every free list empty and every
\* counter 0; the memory of each node is still owned by the boot code,
\* which hands it to the allocator with numa_free_pages.
NumaBoot(d) ==
    /\ npage = [p \in Pfns |-> [buddy |-> FALSE, order |-> 0]]
    /\ nlink = [x \in Pfns \cup NumaHeads |->
                  IF x \in Pfns THEN [next |-> NULL, prev |-> NULL]
                  ELSE [next |-> x, prev |-> x]]
    /\ free_count = [n \in NumaNodes |-> [k \in Orders |-> 0]]
    /\ free_pages = [n \in NumaNodes |-> 0]
    /\ held = {<<n * PagesPerNode, MAX_ORDER - 1>> : n \in NumaNodes}
    /\ nfault = FALSE
    /\ nops = 0
    /\ nlast = NoCall
    /\ ndistance = d

NumaInit == NumaBoot(DefaultDistance)

\* A caller runs numa_alloc_pages(n, order).
numa_alloc_pages(n, order) ==
    /\ ~nfault /\ nops < MaxNumaOps
    /\ LET r == AllocPages(NumaState, n, order)
       IN  /\ NumaInstall(r.st)
           /\ held' = IF r.ptr = NULL THEN held ELSE held \cup {<<r.ptr, order>>}
           /\ nlast' = [op |-> "alloc", req |-> n, order |-> order, ptr |-> r.ptr,
                        node |-> r.node, from |-> r.from,
                        fp |-> free_pages, lists |-> ListsNow]
    /\ nops' = nops + 1
    /\ NumaOnly

\* A caller runs numa_alloc_pages_strict(n, order).
numa_alloc_pages_strict(n, order) ==
    /\ ~nfault /\ nops < MaxNumaOps
    /\ LET r == AllocStrict(NumaState, n, order)
       IN  /\ NumaInstall(r.st)
           /\ held' = IF r.ptr = NULL THEN held ELSE held \cup {<<r.ptr, order>>}
           /\ nlast' = [op |-> "strict", req |-> n, order |-> order, ptr |-> r.ptr,
                        node |-> r.node, from |-> r.from,
                        fp |-> free_pages, lists |-> ListsNow]
    /\ nops' = nops + 1
    /\ NumaOnly

\* The owner of block b = <<pfn, order>> runs numa_free_pages on it, once,
\* with the order it was allocated with.
numa_free_pages(b) ==
    /\ ~nfault /\ nops < MaxNumaOps
    /\ b \in held
    /\ NumaInstall(FreePages(NumaState, b[1], b[2]))
    /\ held' = held \ {b}
    /\ nlast' = IF nlast.op = "alloc" /\ nlast.ptr = b[1] /\ nlast.order = b[2]
                THEN [nlast EXCEPT !.op = "alloc_free"]
                ELSE [NoCall EXCEPT !.op = "free", !.ptr = b[1], !.order = b[2]]
    /\ nops' = nops + 1
    /\ NumaOnly

NumaNext ==
    \/ \E n \in NumaNodes, k \in Orders : numa_alloc_pages(n, k)
    \/ \E n \in NumaNodes, k \in Orders : numa_alloc_pages_strict(n, k)
    \/ \E b \in Pfns \X Orders : numa_free_pages(b)

(***************************************************************************)
(*                    SCHEDULER AND THREAD API                             *)
(***************************************************************************)

\* Online CPUs, each with its run queue set up by sched_init_cpu.
NCpus == 2
\* Threads a process creates with DosCreateThread.
NUserThreads == 8
\* thread_create succeeds this many times in one behaviour of Spec and of
\* RaceSpec, then the kernel heap is used up.
MaxThreads == 3
\* Total number of scheduler and API calls in one behaviour of CritSpec.
MaxCritOps == 8
\* Total number of scheduler and API calls in one behaviour of BalanceSpec.
MaxBalanceOps == 10
\* Total number of scheduler and API calls in one behaviour of Spec.
MaxSchedOps == 5
\* Total number of scheduler and API calls in one behaviour of RaceSpec.
MaxRaceOps == 9
\* The clock runs from 1 to MaxClock milliseconds.
MaxClock == 2
\* DosSuspendThread is not called on a thread suspended this many times.
MaxSuspend == 2

NUM_SCHED_CLASSES == 5
PRIO_LEVELS_PER_CLASS == 32
SCHED_CLASS_IDLE == 0
SCHED_CLASS_REGULAR == 1
SCHED_CLASS_TIMECRIT == 2
SCHED_CLASS_SERVER == 3
\* uint8_t arithmetic
ByteMod == 256

Cpus == 0 .. (NCpus - 1)
SchedClasses == 0 .. (NUM_SCHED_CLASSES - 1)
PrioLevels == 0 .. (PRIO_LEVELS_PER_CLASS - 1)

\* thr and rlink list the threads that exist.  Threads are numbered: first
\* the idle thread of every CPU, then the
\* threads of the process in the order of their creation.
NThreads == NCpus + NUserThreads
Threads == 0 .. (NThreads - 1)
UserThreads == NCpus .. (NThreads - 1)
\* rq->idle of CPU c
IdleOf(c) == c

\* &rq->queues[c][p].queue of CPU cpu: the list nodes after the threads
QueueHead(cpu, c, p) ==
    NThreads + (cpu * NUM_SCHED_CLASSES + c) * PRIO_LEVELS_PER_CLASS + p
NQueues == NCpus * NUM_SCHED_CLASSES * PRIO_LEVELS_PER_CLASS
QueueHeads == NThreads .. (NThreads + NQueues - 1)
HeadCpu(h) == (h - NThreads) \div (NUM_SCHED_CLASSES * PRIO_LEVELS_PER_CLASS)

\* A thread_t that DosCreateThread has not created yet.
NoThread ==
    [state |-> "None", sched_class |-> 0, base_priority |-> 0, dynamic_priority |-> 0,
     flags |-> {}, cpu_affinity |-> {}, last_cpu |-> 0, preferred_cpu |-> 0,
     last_run |-> 0, suspend_count |-> 0]

\* The idle thread of CPU c as sched_init_cpu leaves it.  thread_create
\* leaves it outside every queue, in a state other than Ready or Running.
IdleThread(c) ==
    [state |-> "Suspended", sched_class |-> SCHED_CLASS_IDLE, base_priority |-> 0,
     dynamic_priority |-> 0, flags |-> {"KERNEL", "IDLE", "BOUND"},
     cpu_affinity |-> {c}, last_cpu |-> c, preferred_cpu |-> c,
     last_run |-> 0, suspend_count |-> 0]

\* History of the schedule() call of a step, if it made one: the CPU, the
\* thread it made Running, the thread at the head of the highest non-empty
\* FIFO (NULL if all are empty) and nr_running when it picked, the queue
\* the picked thread was waiting on (NULL if none) and the thread that had
\* waited longest on that queue.
NoSchedule ==
    [ran |-> FALSE, cpu |-> NULL, next |-> NULL, head |-> NULL, nr |-> 0,
     q |-> NULL, first |-> NULL]

\* find_first_bit(word): index of the lowest set bit, -1 if none.  A
\* bitmap is kept as the set of the indices of its set bits.
find_first_bit(word) ==
    IF word = {} THEN 0 - 1 ELSE CHOOSE b \in word : \A d \in word : b <= d

\* The scheduler state as one value, so that the calls of a handler compose.
SchedState ==
    [thr |-> thr, link |-> rlink, count |-> qcount, nr |-> nr_running,
     abm |-> active_bitmap, cbm |-> class_bitmap, cur |-> rq_current,
     ipi |-> ipi, fault |-> sfault, waiting |-> waiting,
     last |-> NoSchedule, now |-> now, pc |-> preempt_counter, heap |-> heap]

\* rq->queues[c][p].count of the queue with list head h; the map lists
\* the counts that are not 0.
Count(st, h) == IF h \in DOMAIN st.count THEN st.count[h] ELSE 0
SetCount(C, h, v) ==
    IF v = 0 THEN [x \in DOMAIN C \ {h} |-> C[x]]
    ELSE [x \in DOMAIN C \cup {h} |-> IF x = h THEN v ELSE C[x]]

\* History: the threads that were put on a queue and have neither run nor
\* been taken off since, per list head, longest wait first.
Without(q, t) == SelectSeq(q, LAMBDA x : x # t)
NowWaiting(W, h, t) ==
    LET W1 == [x \in DOMAIN W |-> Without(W[x], t)]
        old == IF h \in DOMAIN W1 THEN W1[h] ELSE <<>>
        W2 == [x \in DOMAIN W1 \cup {h} |-> IF x = h THEN Append(old, t) ELSE W1[x]]
    IN  [x \in {y \in DOMAIN W2 : W2[y] # <<>>} |-> W2[x]]
NotWaiting(W, t) ==
    LET W1 == [x \in DOMAIN W |-> Without(W[x], t)]
    IN  [x \in {y \in DOMAIN W1 : W1[y] # <<>>} |-> W1[x]]
WaitingOn(W, t) ==
    IF \E h \in DOMAIN W : \E i \in 1 .. Len(W[h]) : W[h][i] = t
    THEN CHOOSE h \in DOMAIN W : \E i \in 1 .. Len(W[h]) : W[h][i] = t
    ELSE NULL

\* A null or bogus pointer is dereferenced, or a loop never ends.
SchedFault(st) == [st EXCEPT !.fault = TRUE]

\* The level of a thread inside its class: dynamic_priority % 32
PrioLevel(th) == th.dynamic_priority % PRIO_LEVELS_PER_CLASS

\* list_add_tail(&thread->run_list, &pq->queue); pq->count++;
\* rq->nr_running++; and the two bitmaps, on the run queue of CPU cpu.
PushTail(st, t, cpu) ==
    LET c == st.thr[t].sched_class
        p == PrioLevel(st.thr[t])
        h == QueueHead(cpu, c, p)
    IN  [st EXCEPT !.link = list_add_tail(@, t, h),
                   !.count = SetCount(@, h, Count(st, h) + 1),
                   !.nr[cpu] = @ + 1,
                   !.abm[cpu][c] = @ \cup {31 - p},
                   !.cbm[cpu] = @ \cup {c},
                   !.waiting = NowWaiting(@, h, t)]

\* list_del_init(&thread->run_list); pq->count--; rq->nr_running--; and
\* the bitmaps if the queue is empty, on the run queue of CPU cpu.
PopEntry(st, t, cpu) ==
    LET c == st.thr[t].sched_class
        p == PrioLevel(st.thr[t])
        h == QueueHead(cpu, c, p)
        n == Count(st, h) - 1
        a == IF n = 0 THEN st.abm[cpu][c] \ {31 - p} ELSE st.abm[cpu][c]
    IN  [st EXCEPT !.link = list_del_init(@, t),
                   !.count = SetCount(@, h, n),
                   !.nr[cpu] = @ - 1,
                   !.abm[cpu][c] = a,
                   !.cbm[cpu] = IF n = 0 /\ a = {} THEN @ \ {c} ELSE @,
                   !.waiting = NotWaiting(@, t)]

\* The CPU enqueue_thread selects: preferred_cpu if the mask allows it,
\* else the first allowed CPU below cpu_count, else cpu_count.
EnqueueCpu(th) ==
    IF th.preferred_cpu \in th.cpu_affinity THEN th.preferred_cpu
    ELSE IF th.cpu_affinity \cap Cpus = {} THEN NCpus
         ELSE find_first_bit(th.cpu_affinity \cap Cpus)

\* enqueue_thread(thread), called on CPU self
enqueue_thread(st, t, self) ==
    LET cpu == EnqueueCpu(st.thr[t])
    IN  IF st.fault THEN st
        ELSE IF cpu \notin Cpus THEN SchedFault(st)
        ELSE LET s1 == [PushTail(st, t, cpu) EXCEPT !.thr[t].state = "Ready"]
                 cur == s1.cur[cpu]
             IN  IF cur # NULL
                    /\ s1.thr[t].dynamic_priority > s1.thr[cur].dynamic_priority
                 THEN \* set_need_resched() is current_thread()->flags |= ...
                      IF s1.cur[self] = NULL THEN SchedFault(s1)
                      ELSE [s1 EXCEPT !.thr[s1.cur[self]].flags = @ \cup {"NEED_RESCHED"},
                                      !.ipi = IF cpu # self THEN @ \cup {cpu} ELSE @]
                 ELSE s1

\* dequeue_thread(thread): unlinks the thread and updates the counters of
\* the run queue of thread->last_cpu.
dequeue_thread(st, t) ==
    IF st.fault THEN st ELSE PopEntry(st, t, st.thr[t].last_cpu)

\* The inner loop of pick_next_thread: for (; p < 32; p++), testing bit
\* 31 - p and taking queues[c][31 - p].
RECURSIVE PickLevel(_, _, _, _)
PickLevel(st, cpu, c, p) ==
    IF p >= PRIO_LEVELS_PER_CLASS THEN NULL
    ELSE IF (31 - p) \notin st.abm[cpu][c] THEN PickLevel(st, cpu, c, p + 1)
    ELSE IF ~list_empty(st.link, QueueHead(cpu, c, 31 - p))
         THEN Node(st.link, QueueHead(cpu, c, 31 - p)).next
         ELSE PickLevel(st, cpu, c, p + 1)

\* The outer loop of pick_next_thread: for (c = 4; c >= 0; c--)
RECURSIVE PickClass(_, _, _)
PickClass(st, cpu, c) ==
    IF c < 0 THEN IdleOf(cpu)
    ELSE IF c \notin st.cbm[cpu] THEN PickClass(st, cpu, c - 1)
    ELSE LET p == find_first_bit(st.abm[cpu][c])
         IN  IF p < 0 THEN PickClass(st, cpu, c - 1)
             ELSE LET next == PickLevel(st, cpu, c, p)
                  IN  IF next # NULL THEN next ELSE PickClass(st, cpu, c - 1)

\* pick_next_thread(rq)
pick_next_thread(st, cpu) ==
    IF st.nr[cpu] = 0 THEN IdleOf(cpu) ELSE PickClass(st, cpu, NUM_SCHED_CLASSES - 1)

\* The list heads of the non-empty queues of CPU cpu.
NonEmptyQueues(st, cpu) ==
    {h \in DOMAIN st.link \cap QueueHeads : HeadCpu(h) = cpu /\ ~list_empty(st.link, h)}

\* The first entry of the highest non-empty FIFO of CPU cpu (the list
\* heads of a CPU are numbered by class, then level), NULL if all are empty.
HighestHead(st, cpu) ==
    LET hs == NonEmptyQueues(st, cpu)
    IN  IF hs = {} THEN NULL
        ELSE Node(st.link, CHOOSE h \in hs : \A j \in hs : j <= h).next

\* schedule() on CPU cpu
schedule(st, cpu) ==
    LET prev == st.cur[cpu]
    IN  IF st.fault THEN st
        ELSE IF st.pc[cpu] > 0 /\ prev = NULL THEN SchedFault(st)
        ELSE IF st.pc[cpu] > 0 /\ st.thr[prev].state = "Running" THEN st
        ELSE
        LET s0 == IF prev = NULL THEN st
                  ELSE [st EXCEPT !.thr[prev].flags = @ \ {"NEED_RESCHED"}]
            \* re-enqueue if still runnable
            s1 == IF prev # NULL /\ s0.thr[prev].state = "Running"
                  THEN PushTail([s0 EXCEPT !.thr[prev].state = "Ready"], prev, cpu)
                  ELSE s0
            next == pick_next_thread(s1, cpu)
        IN  IF next \notin DOMAIN s1.thr THEN SchedFault(s1)
            ELSE
            LET \* dequeue next if not idle
                s2 == IF next # IdleOf(cpu) /\ s1.thr[next].state = "Ready"
                      THEN PopEntry(s1, next, cpu)
                      ELSE s1
            IN  [s2 EXCEPT !.thr[next].state = "Running",
                           !.thr[next].last_run = st.now,
                           !.thr[next].last_cpu = cpu,
                           !.cur[cpu] = next,
                           !.waiting = NotWaiting(@, next),
                           !.last = [ran |-> TRUE, cpu |-> cpu, next |-> next,
                                     head |-> HighestHead(s1, cpu),
                                     nr |-> s1.nr[cpu],
                                     q |-> WaitingOn(s1.waiting, next),
                                     first |-> IF WaitingOn(s1.waiting, next) = NULL THEN NULL
                                               ELSE s1.waiting[WaitingOn(s1.waiting, next)][1]]]

\* "load > max_load + 1" of trigger_load_balance: load is a uint32_t
\* nr_running widened to uint64_t.  A counter that has wrapped below zero
\* is kept as a negative integer and stands for a value near 2^32.
LoadExceeds(load, max) ==
    IF max >= 0 THEN load < 0 \/ load > max + 1
    ELSE load < 0 /\ load > max + 1

\* The loop "find busiest CPU" from CPU cpu on, with the busiest CPU and
\* the maximum load found so far.
RECURSIVE FindBusiest(_, _, _, _, _)
FindBusiest(st, this, cpu, busiest, max) ==
    IF cpu >= NCpus THEN busiest
    ELSE IF cpu # this /\ LoadExceeds(st.nr[cpu], max)
         THEN FindBusiest(st, this, cpu + 1, cpu, st.nr[cpu])
         ELSE FindBusiest(st, this, cpu + 1, busiest, max)

\* The migration loop without its test of last_run.
MigratableHot(st, t, this) ==
    /\ this \in st.thr[t].cpu_affinity
    /\ "BOUND" \notin st.thr[t].flags

\* The three tests of the migration loop on a thread of the busiest queue.
Migratable(st, t, this) ==
    /\ this \in st.thr[t].cpu_affinity
    /\ "BOUND" \notin st.thr[t].flags
    /\ ~(st.now - st.thr[t].last_run < 1)

\* list_for_each_entry over one queue from node n on: the first migratable
\* thread, NULL if the walk comes back to the head without one, BadWalk if
\* it meets a node that is no thread or never comes back.
BadWalk == 0 - 2
RECURSIVE WalkQueue(_, _, _, _, _)
WalkQueue(st, this, h, n, fuel) ==
    IF n = h THEN NULL
    ELSE IF n \notin DOMAIN st.thr \/ fuel = 0 THEN BadWalk
    ELSE IF Migratable(st, n, this) THEN n
    ELSE WalkQueue(st, this, h, Node(st.link, n).next, fuel - 1)

\* The migration of thread t found on the queue with list head h of CPU
\* busiest to CPU this.
Migrate(st, t, this, busiest, h) ==
    LET c == ((h - NThreads) \div PRIO_LEVELS_PER_CLASS) % NUM_SCHED_CLASSES
        p == (h - NThreads) % PRIO_LEVELS_PER_CLASS
        n == Count(st, h) - 1
        s1 == [st EXCEPT !.link = list_del_init(@, t),
                         !.count = SetCount(@, h, n),
                         !.nr[busiest] = @ - 1,
                         !.abm[busiest][c] = IF n = 0 THEN @ \ {31 - p} ELSE @,
                         !.waiting = NotWaiting(@, t),
                         !.thr[t].preferred_cpu = this,
                         !.thr[t].flags = @ \cup {"MIGRATING"}]
        s2 == enqueue_thread(s1, t, this)
    IN  IF s2.fault THEN s2 ELSE [s2 EXCEPT !.thr[t].flags = @ \ {"MIGRATING"}]

\* The result of list_for_each_entry on the queue with list head h.
WalkFrom(st, this, h) == WalkQueue(st, this, h, Node(st.link, h).next, NThreads + 1)

\* The two for loops over the queues of the busiest CPU: they stop at the
\* first queue, in the order class 0 level 0, class 0 level 1, ..., whose
\* walk finds a thread or goes wrong.
PullFrom(st, this, busiest) ==
    LET hs == {h \in NonEmptyQueues(st, busiest) : WalkFrom(st, this, h) # NULL}
        h == CHOOSE j \in hs : \A i \in hs : j <= i
        t == WalkFrom(st, this, h)
    IN  IF hs = {} THEN st
        ELSE IF t = BadWalk THEN SchedFault(st)
        ELSE Migrate(st, t, this, busiest, h)

\* trigger_load_balance() on CPU this
trigger_load_balance(st, this) ==
    LET busiest == FindBusiest(st, this, 0, this, st.nr[this])
    IN  IF st.fault \/ busiest = this THEN st
        ELSE PullFrom(st, this, busiest)

\* preempt_enable() on CPU cpu
preempt_enable(st, cpu) ==
    LET s1 == [st EXCEPT !.pc[cpu] = @ - 1]
    IN  IF s1.pc[cpu] # 0 THEN s1
        ELSE IF s1.cur[cpu] = NULL THEN SchedFault(s1)
        ELSE IF "NEED_RESCHED" \in s1.thr[s1.cur[cpu]].flags THEN schedule(s1, cpu)
        ELSE s1

\* thread_block(channel), called by the thread that runs on CPU cpu.  If
\* the schedule() inside preempt_enable() switches to another thread, the
\* caller stops there: its own schedule() is not reached before it is
\* switched in again.
thread_block(st, cpu) ==
    LET curr == st.cur[cpu]
        s1 == [st EXCEPT !.pc[cpu] = @ + 1, !.thr[curr].state = "Blocked"]
        s2 == preempt_enable(s1, cpu)
    IN  IF s2.fault \/ s2.cur[cpu] # curr THEN s2 ELSE schedule(s2, cpu)

\* set_thread_affinity(thread, mask), called on CPU self
set_thread_affinity(st, t, mask, self) ==
    IF mask \cap Cpus = {} THEN st
    ELSE LET s1 == [st EXCEPT !.thr[t].cpu_affinity = mask]
         IN  IF s1.thr[t].last_cpu \notin mask /\ s1.thr[t].state = "Ready"
             THEN enqueue_thread(
                      [dequeue_thread(s1, t) EXCEPT
                          !.thr[t].preferred_cpu = find_first_bit(mask)],
                      t, self)
             ELSE s1

\* os2_to_internal_priority(prtyclass, prtylevel), both uint8_t
os2_to_internal_priority(prtyclass, prtylevel) ==
    LET sched_class == CASE prtyclass = 1 -> SCHED_CLASS_IDLE
                         [] prtyclass = 2 -> SCHED_CLASS_REGULAR
                         [] prtyclass = 3 -> SCHED_CLASS_TIMECRIT
                         [] prtyclass = 4 -> SCHED_CLASS_SERVER
                         [] OTHER -> SCHED_CLASS_REGULAR
        l == ((prtylevel + 31) \div 2) % ByteMod
        level == IF l > 31 THEN 31 ELSE l
    IN  (sched_class * PRIO_LEVELS_PER_CLASS + level) % ByteMod

\* A value converted to uint8_t
ToByte(v) == v % ByteMod

\* apply_priority_change(thread, new_class, delta), called on CPU self;
\* new_class 255 is "no change".
apply_priority_change(st, t, new_class, delta, self) ==
    LET was_queued == st.thr[t].state = "Ready"
        s1 == IF was_queued THEN dequeue_thread(st, t) ELSE st
        class == IF new_class # 255 THEN new_class ELSE s1.thr[t].sched_class
        sum == s1.thr[t].base_priority + delta
        new_prio == IF sum < 0 THEN 0 ELSE IF sum > 31 THEN 31 ELSE sum
        s2 == [s1 EXCEPT !.thr[t].sched_class = class,
                         !.thr[t].base_priority = new_prio,
                         !.thr[t].dynamic_priority =
                             os2_to_internal_priority(ToByte(class + 1), ToByte(new_prio - 16))]
    IN  IF was_queued THEN enqueue_thread(s2, t, self) ELSE s2

\* The switch of DosSetPriority from the OS/2 class to the internal one.
InternalClass(ulClass) ==
    CASE ulClass = 0 -> 255
      [] ulClass = 1 -> SCHED_CLASS_IDLE
      [] ulClass = 2 -> SCHED_CLASS_REGULAR
      [] ulClass = 3 -> SCHED_CLASS_TIMECRIT
      [] ulClass = 4 -> SCHED_CLASS_SERVER

\* The map of the list nodes without the empty list heads.
Tidy(L) ==
    [x \in {y \in DOMAIN L : y \in Threads \/ L[y] # [next |-> y, prev |-> y]} |-> L[x]]

SchedInstall(st) ==
    /\ thr' = st.thr
    /\ rlink' = Tidy(st.link)
    /\ qcount' = st.count
    /\ nr_running' = st.nr
    /\ active_bitmap' = st.abm
    /\ class_bitmap' = st.cbm
    /\ rq_current' = st.cur
    /\ ipi' = st.ipi
    /\ sfault' = st.fault
    /\ waiting' = st.waiting
    /\ slast' = st.last
    /\ preempt_counter' = st.pc
    /\ heap' = st.heap
    /\ sops' = sops - 1
    /\ UNCHANGED now

\* A call can be made while the kernel runs and the call budget lasts.
SchedRuns == ~sfault /\ sops > 0

\* smp_init and sched_init_cpu have run for every CPU: the run queues are
\* empty, no CPU has scheduled yet, every idle thread exists.
SchedBoot(calls, mem) ==
    /\ thr = [t \in Cpus |-> IdleThread(t)]
    /\ rlink = [x \in Cpus |-> [next |-> x, prev |-> x]]
    /\ qcount = <<>>
    /\ nr_running = [cpu \in Cpus |-> 0]
    /\ active_bitmap = [cpu \in Cpus |-> [c \in SchedClasses |-> {}]]
    /\ class_bitmap = [cpu \in Cpus |-> {}]
    /\ rq_current = [cpu \in Cpus |-> NULL]
    /\ ipi = {}
    /\ sfault = FALSE
    /\ waiting = <<>>
    /\ slast = NoSchedule
    /\ now = 1
    /\ preempt_counter = [cpu \in Cpus |-> 0]
    /\ heap = mem
    /\ sops = calls

SchedInit == SchedBoot(MaxSchedOps, MaxThreads)

\* The process has entered no critical section.
CritInit ==
    /\ critsec_count = 0
    /\ critsec_lock = [head |-> 0, tail |-> 0]
    /\ cspin = <<>>
    /\ centered = [t \in UserThreads |-> 0]
    /\ cret = "NO_ERROR"

\* The locks of the allocator and of the scheduler: numa_topo.nodes[n].lock,
\* scheduler.runqueues[c]->lock and scheduler.global_lock.
NodeLock(n) == <<"node", n>>
RqLock(c) == <<"rq", c>>
GlobalLock == <<"global", 0>>
KLocks == {NodeLock(n) : n \in NumaNodes} \cup {RqLock(c) : c \in Cpus} \cup {GlobalLock}

\* The priority fields DosCreateThread gives a thread, and no call so far.
PrioQuiet ==
    /\ pthr = [sched_class |-> SCHED_CLASS_REGULAR, base_priority |-> 16,
               dynamic_priority |-> 16, priority_boost |-> 0, boost_ticks |-> 0]
    /\ pcall = [fn |-> "none"]
    /\ pops = 0

\* No CPU is inside a locking function or holds a lock; interrupts are on.
OrderInit ==
    /\ klock = [l \in KLocks |-> NULL]
    /\ kstack = [c \in Cpus |-> <<>>]
    /\ kif = [c \in Cpus |-> TRUE]

\* CPUs that call smp_call_function or take its IPI.
NCallCpus == 3
CallCpus == 0 .. (NCallCpus - 1)

\* No function was published and no CPU is inside smp_call_function.
CallBoot(calls) ==
    /\ smp_ipi = [func |-> 0, arg |-> 0, pending |-> 0]
    /\ smp_lock = NULL
    /\ ccpu = [c \in CallCpus |-> [pc |-> "idle", func |-> 0, wait |-> 0]]
    /\ cirr = {}
    /\ cowed = {}
    /\ ccalls = calls

CallQuiet == CallBoot(0)

\* CPUs that share one rwlock_t.
NRwCpus == 3
RwCpus == 0 .. (NRwCpus - 1)

\* rwlock_init: no reader, no writer.
RwInit ==
    /\ rw_count = 0
    /\ rw_wait = <<>>
    /\ rwcpu = [c \in RwCpus |-> [pc |-> "idle", count |-> 0]]

\* No enqueue_thread and no trigger_load_balance was looked at.
PickInit ==
    /\ placed = [called |-> FALSE]
    /\ picked = [called |-> FALSE]

\* The units that are checked on their own, at rest.
UnitInit == PrioQuiet /\ OrderInit /\ CallQuiet /\ RwInit /\ PickInit

\* The thread DosCreateThread creates next.
NextThread == CHOOSE t \in UserThreads :
                 /\ t \notin DOMAIN thr
                 /\ \A u \in UserThreads : u < t => u \in DOMAIN thr

\* DosCreateThread(ptid, pfn, param, flag, cbStack) on CPU c, flag being
\* CREATE_READY (ready) or CREATE_SUSPENDED; thread_create leaves last_cpu
\* lc.
DosCreateThread(c, ready, lc) ==
    /\ SchedRuns
    /\ lc \in {0, c}
    /\ heap > 0
    /\ UserThreads \ DOMAIN thr # {}
    /\ LET t == NextThread
           s1 == [SchedState EXCEPT
                     !.heap = @ - 1,
                     !.link = @ @@ (t :> [next |-> t, prev |-> t]),
                     !.thr = @ @@ (t :> [NoThread EXCEPT
                                           !.state = "Suspended",
                                           !.sched_class = SCHED_CLASS_REGULAR,
                                           !.base_priority = 16,
                                           !.dynamic_priority = 16,
                                           !.cpu_affinity = Cpus,
                                           !.last_cpu = lc,
                                           !.preferred_cpu = c])]
       IN  SchedInstall(IF ready THEN enqueue_thread(s1, t, c) ELSE s1)
    /\ SchedOnly

\* DosSuspendThread(tid) on CPU c
DosSuspendThread(c, t) ==
    /\ SchedRuns
    /\ t \in DOMAIN thr
    /\ thr[t].suspend_count < MaxSuspend
    /\ LET s1 == [SchedState EXCEPT !.thr[t].suspend_count = @ + 1]
       IN  SchedInstall(
               IF s1.thr[t].state = "Ready"
               THEN [dequeue_thread(s1, t) EXCEPT !.thr[t].state = "Suspended"]
               ELSE IF s1.thr[t].state = "Running"
                    THEN IF t = s1.cur[c]
                         THEN schedule([s1 EXCEPT !.thr[t].state = "Suspended"], c)
                         ELSE [s1 EXCEPT !.thr[t].state = "Suspended",
                                         !.ipi = @ \cup {s1.thr[t].last_cpu}]
                    ELSE s1)
    /\ SchedOnly

\* DosResumeThread(tid) on CPU c
DosResumeThread(c, t) ==
    /\ SchedRuns
    /\ t \in DOMAIN thr
    /\ LET s0 == SchedState
           s1 == [s0 EXCEPT !.thr[t].suspend_count = @ - 1]
       IN  SchedInstall(
               IF s0.thr[t].suspend_count = 0 THEN s0
               ELSE IF s1.thr[t].suspend_count = 0 /\ s1.thr[t].state = "Suspended"
                    THEN enqueue_thread([s1 EXCEPT !.thr[t].state = "Ready"], t, c)
                    ELSE s1)
    /\ SchedOnly

\* DosSetPriority(PRTYS_THREAD, ulClass, delta, tid) on CPU c
DosSetPriority(c, t, ulClass, delta) ==
    /\ SchedRuns
    /\ t \in DOMAIN thr
    /\ SchedInstall(apply_priority_change(SchedState, t,
                                          InternalClass(ulClass), delta, c))
    /\ SchedOnly

\* DosSetThreadAffinity(tid, affinity_mask) on CPU c
DosSetThreadAffinity(c, t, mask) ==
    /\ SchedRuns
    /\ t \in DOMAIN thr
    /\ SchedInstall(IF mask \cap Cpus = {} THEN SchedState
                    ELSE set_thread_affinity(SchedState, t, mask, c))
    /\ SchedOnly

\* CPU c calls schedule().
cpu_schedule(c) ==
    /\ SchedRuns
    /\ SchedInstall(schedule(SchedState, c))
    /\ SchedOnly

\* The thread that runs on CPU c calls thread_block().
cpu_thread_block(c) ==
    /\ SchedRuns
    /\ rq_current[c] \in UserThreads
    /\ SchedInstall(thread_block(SchedState, c))
    /\ SchedOnly

\* CPU c calls trigger_load_balance().
cpu_trigger_load_balance(c) ==
    /\ SchedRuns
    /\ SchedInstall(trigger_load_balance(SchedState, c))
    /\ SchedOnly

\* CPU c takes a pending reschedule IPI: ipi_reschedule_handler().
ipi_reschedule_handler(c) ==
    /\ SchedRuns
    /\ c \in ipi
    /\ LET s1 == [SchedState EXCEPT !.ipi = @ \ {c}]
       IN  SchedInstall(IF s1.cur[c] = NULL THEN SchedFault(s1)
                        ELSE [s1 EXCEPT !.thr[s1.cur[c]].flags = @ \cup {"NEED_RESCHED"}])
    /\ SchedOnly

\* A millisecond passes on the clock get_time_ns() reads.
clock_advance ==
    /\ ~sfault
    /\ now < MaxClock
    /\ now' = now + 1
    /\ UNCHANGED <<thr, rlink, qcount, nr_running, active_bitmap, class_bitmap,
                   rq_current, ipi, sfault, waiting, slast, preempt_counter, heap, sops>>
    /\ SchedOnly

\* The masks, classes and deltas the calls are made with.
AffinityMasks == (SUBSET Cpus) \ {{}}
PriorityClasses == {0, 3}
PriorityDeltas == {0, 0 - 31}

Next ==
    \/ \E c \in Cpus, ready \in BOOLEAN, lc \in Cpus : DosCreateThread(c, ready, lc)
    \/ \E c \in Cpus, t \in UserThreads : DosSuspendThread(c, t)
    \/ \E c \in Cpus, t \in UserThreads : DosResumeThread(c, t)
    \/ \E c \in Cpus, t \in UserThreads, k \in PriorityClasses, d \in PriorityDeltas :
          DosSetPriority(c, t, k, d)
    \/ \E c \in Cpus, t \in UserThreads, m \in AffinityMasks : DosSetThreadAffinity(c, t, m)
    \/ \E c \in Cpus : cpu_schedule(c)
    \/ \E c \in Cpus : cpu_thread_block(c)
    \/ \E c \in Cpus : cpu_trigger_load_balance(c)
    \/ \E c \in Cpus : ipi_reschedule_handler(c)
    \/ clock_advance

\* The scheduler on its own.
SpecInit == SchedInit /\ LockQuiet /\ NumaInit /\ BootInit /\ CritInit /\ UnitInit
Spec == SpecInit /\ [][Next]_vars

\* The same calls in longer behaviours of one pattern of use: CPU 0 creates
\* ready threads, lowers priorities and binds threads to CPU 1, CPU 1
\* suspends and resumes them, both CPUs schedule, block, balance and take
\* IPIs, all within one millisecond.
RaceNext ==
    \/ DosCreateThread(0, TRUE, 0)
    \/ \E t \in UserThreads : DosSuspendThread(1, t)
    \/ \E t \in UserThreads : DosResumeThread(1, t)
    \/ \E t \in UserThreads : DosSetPriority(0, t, 0, 0)
    \/ \E t \in UserThreads : DosSetThreadAffinity(0, t, {1})
    \/ \E c \in Cpus : cpu_schedule(c)
    \/ \E c \in Cpus : cpu_thread_block(c)
    \/ \E c \in Cpus : cpu_trigger_load_balance(c)
    \/ \E c \in Cpus : ipi_reschedule_handler(c)

RaceSpecInit ==
    SchedBoot(MaxRaceOps, MaxThreads) /\ LockQuiet /\ NumaInit /\ BootInit /\ CritInit
        /\ UnitInit
RaceSpec == RaceSpecInit /\ [][RaceNext]_vars

\* DosEnterCritSec called by the current thread of CPU c.  spin_lock draws a
\* ticket; a caller whose ticket is not served stays in the spin loop (cspin)
\* and the call goes on once head has reached its ticket.
DosEnterCritSec(c) ==
    /\ SchedRuns
    /\ rq_current[c] \in UserThreads
    /\ LET t == rq_current[c]
           ticket == IF t \in DOMAIN cspin THEN cspin[t] ELSE critsec_lock.tail
       IN  /\ t \in DOMAIN cspin => critsec_lock.head = ticket
           /\ critsec_lock' = IF t \in DOMAIN cspin THEN critsec_lock
                              ELSE [critsec_lock EXCEPT !.tail = (@ + 1) % TicketMod]
           /\ IF critsec_lock.head = ticket
              THEN /\ critsec_count' = critsec_count + 1
                   /\ SchedInstall([SchedState EXCEPT !.pc[c] = @ + 1])
                   /\ cspin' = [x \in DOMAIN cspin \ {t} |-> cspin[x]]
                   /\ centered' = [centered EXCEPT ![t] = @ + 1]
                   /\ cret' = "NO_ERROR"
              ELSE /\ cspin' = cspin @@ (t :> ticket)
                   /\ SchedInstall(SchedState)
                   /\ UNCHANGED <<critsec_count, centered, cret>>
    /\ CritOnly

\* DosExitCritSec called by the current thread of CPU c, in one step: where
\* preempt_enable switches to another thread, the spin_unlock that follows
\* it in the code is taken with it.
DosExitCritSec(c) ==
    /\ SchedRuns
    /\ rq_current[c] \in UserThreads
    /\ rq_current[c] \notin DOMAIN cspin
    /\ IF critsec_count = 0
       THEN /\ cret' = "ERROR_CRITSEC_UNDERFLOW"
            /\ SchedInstall(SchedState)
            /\ UNCHANGED <<critsec_count, critsec_lock, centered>>
       ELSE /\ critsec_count' = critsec_count - 1
            /\ SchedInstall(preempt_enable(SchedState, c))
            /\ critsec_lock' = [critsec_lock EXCEPT !.head = (@ + 1) % TicketMod]
            /\ centered' = [centered EXCEPT ![rq_current[c]] = IF @ > 0 THEN @ - 1 ELSE 0]
            /\ cret' = "NO_ERROR"
    /\ UNCHANGED cspin
    /\ CritOnly

\* Critical sections on their own: CPU 0 creates ready threads and lowers
\* priorities, the CPUs schedule, and the running threads block, enter and
\* exit.
CritNext ==
    \/ DosCreateThread(0, TRUE, 0)
    \/ \E t \in UserThreads : DosSetPriority(0, t, 0, 0)
    \/ \E c \in Cpus : cpu_schedule(c)
    \/ \E c \in Cpus : cpu_thread_block(c)
    \/ \E c \in Cpus : DosEnterCritSec(c)
    \/ \E c \in Cpus : DosExitCritSec(c)

CritSpecInit ==
    SchedBoot(MaxCritOps, MaxThreads) /\ LockQuiet /\ NumaInit /\ BootInit /\ CritInit
        /\ UnitInit
CritSpec == CritSpecInit /\ [][CritNext]_vars

\* Critical sections against the other CPU: CPU 0 creates ready threads and
\* changes priorities, the threads enter and leave critical sections, CPU 1
\* suspends and resumes them, both CPUs schedule and take IPIs.
MaxPreemptOps == 8
PreemptNext ==
    \/ DosCreateThread(0, TRUE, 0)
    \/ \E t \in UserThreads : DosSetPriority(0, t, 0, 0)
    \/ \E t \in UserThreads : DosSuspendThread(1, t)
    \/ \E t \in UserThreads : DosResumeThread(1, t)
    \/ \E c \in Cpus : cpu_schedule(c)
    \/ \E c \in Cpus : ipi_reschedule_handler(c)
    \/ \E c \in Cpus : DosEnterCritSec(c)
    \/ \E c \in Cpus : DosExitCritSec(c)

PreemptSpecInit ==
    SchedBoot(MaxPreemptOps, MaxThreads) /\ LockQuiet /\ NumaInit /\ BootInit /\ CritInit
        /\ UnitInit
PreemptSpec == PreemptSpecInit /\ [][PreemptNext]_vars

\* Migration among threads that differ: CPU 0 creates ready threads and
\* lowers priorities, either CPU schedules and balances, and the clock
\* moves on.  No other call of these behaviours takes a thread from one
\* run queue to another.
MaxMigrateOps == 8
MigrateNext ==
    \/ DosCreateThread(0, TRUE, 0)
    \/ \E t \in UserThreads : DosSetPriority(0, t, 0, 0)
    \/ \E c \in Cpus : cpu_schedule(c)
    \/ \E c \in Cpus : cpu_trigger_load_balance(c)
    \/ clock_advance

MigrateSpecInit ==
    SchedBoot(MaxMigrateOps, MaxThreads) /\ LockQuiet /\ NumaInit /\ BootInit /\ CritInit
        /\ UnitInit
MigrateSpec == MigrateSpecInit /\ [][MigrateNext]_vars

\* The load balancer on its own: CPU 0 creates ready threads and either CPU
\* balances.
BalanceNext ==
    \/ DosCreateThread(0, TRUE, 0)
    \/ \E c \in Cpus : cpu_trigger_load_balance(c)

BalanceSpecInit ==
    SchedBoot(MaxBalanceOps, NUserThreads) /\ LockQuiet /\ NumaInit /\ BootInit /\ CritInit
        /\ UnitInit
BalanceSpec == BalanceSpecInit /\ [][BalanceNext]_vars

(***************************************************************************)
(*                  PROPERTIES OF THE SCHEDULER                            *)
(***************************************************************************)

\* The entries of the FIFO with list head h, read as list_for_each reads
\* them; the walk gives up after more steps than there are threads.
FifoOf(h) == ListFrom(rlink, h, Node(rlink, h).next, NThreads + 1)

\* The places <<list head, position>> at which thread t is met on a FIFO.
LinkedAt(t) ==
    {x \in (DOMAIN rlink \cap QueueHeads) \X (1 .. (NThreads + 1)) :
        x[2] <= Len(FifoOf(x[1])) /\ FifoOf(x[1])[x[2]] = t}

\* The CPUs whose run queue has thread t as rq->current.
CurrentOn(t) == {c \in Cpus : rq_current[c] = t}

(***************************************************************************)
(* C1: the thread schedule() makes Running is the head of the FIFO at the  *)
(* highest non-empty level of the highest non-empty class of the local run *)
(* queue, and it is the idle thread only when nr_running is 0.             *)
(***************************************************************************)
PicksHighestHead ==
    (~sfault /\ slast.ran) =>
        /\ slast.head # NULL => slast.next = slast.head
        /\ slast.next = IdleOf(slast.cpu) => slast.nr = 0

(***************************************************************************)
(* C2: every thread in state Running is the current thread of exactly one  *)
(* run queue and is linked in no run-queue FIFO.                           *)
(***************************************************************************)
RunningIsCurrentOnly ==
    ~sfault =>
        \A t \in DOMAIN thr :
            thr[t].state = "Running" =>
                Cardinality(CurrentOn(t)) = 1 /\ LinkedAt(t) = {}

(***************************************************************************)
(* C3: after each completed operation every thread in state Ready is       *)
(* linked in exactly one run queue's FIFO, exactly once.                   *)
(***************************************************************************)
ReadyLinkedOnce ==
    ~sfault =>
        \A t \in DOMAIN thr : thr[t].state = "Ready" => Cardinality(LinkedAt(t)) = 1

(***************************************************************************)
(* C4: every Ready thread is queued on the run queue of a CPU that is in   *)
(* its cpu_affinity mask.                                                  *)
(***************************************************************************)
ReadyOnAffineCpu ==
    ~sfault =>
        \A t \in DOMAIN thr :
            thr[t].state = "Ready" =>
                \A x \in LinkedAt(t) : HeadCpu(x[1]) \in thr[t].cpu_affinity

(***************************************************************************)
(* C10: threads queued on the same run queue at the same class and level   *)
(* become Running in the order in which they were enqueued: the thread     *)
(* schedule() takes from a FIFO is the one that has waited on it longest,  *)
(* a thread re-queued by schedule() counting from its re-queueing.         *)
(***************************************************************************)
RunsInEnqueueOrder ==
    (~sfault /\ slast.ran /\ slast.q # NULL) => slast.next = slast.first

(***************************************************************************)
(* C11: after any affinity update has completed, the CPU a Running thread  *)
(* is current on is in the thread's cpu_affinity mask.                     *)
(***************************************************************************)
RunningOnAffineCpu ==
    ~sfault =>
        \A t \in DOMAIN thr :
            thr[t].state = "Running" =>
                \A c \in CurrentOn(t) : c \in thr[t].cpu_affinity

(***************************************************************************)
(* C12: the idle thread of each CPU has class Idle, the Bound flag and     *)
(* affinity exactly its own CPU, is linked in no run-queue FIFO and is not *)
(* counted in nr_running: while no other thread exists nr_running is 0.    *)
(***************************************************************************)
IdleNeverQueued ==
    ~sfault =>
        \A c \in Cpus :
            /\ thr[IdleOf(c)].sched_class = SCHED_CLASS_IDLE
            /\ "BOUND" \in thr[IdleOf(c)].flags
            /\ thr[IdleOf(c)].cpu_affinity = {c}
            /\ LinkedAt(IdleOf(c)) = {}
            /\ DOMAIN thr = Cpus => nr_running[c] = 0

\* queues[c][l].count of CPU cpu as the variables hold it.
QueueCount(cpu, c, l) ==
    IF QueueHead(cpu, c, l) \in DOMAIN qcount THEN qcount[QueueHead(cpu, c, l)] ELSE 0

(***************************************************************************)
(* C13: for every run queue, class c and level l, the bit of level l in    *)
(* active_bitmap[c] (bit 31 - l) is set if and only if queues[c][l].count  *)
(* is greater than 0.  (count is unsigned: every value but 0 is greater.)  *)
(***************************************************************************)
ActiveBitIffCount ==
    ~sfault =>
        \A cpu \in Cpus, c \in SchedClasses, l \in PrioLevels :
            ((31 - l) \in active_bitmap[cpu][c]) <=> (QueueCount(cpu, c, l) # 0)

(***************************************************************************)
(* C14: for every run queue and class c, bit c of class_bitmap is set if   *)
(* and only if active_bitmap[c] is non-zero.                               *)
(***************************************************************************)
ClassBitIffActive ==
    ~sfault =>
        \A cpu \in Cpus, c \in SchedClasses :
            (c \in class_bitmap[cpu]) <=> (active_bitmap[cpu][c] # {})

\* The sum of queues[c][l].count over the queues of CPU cpu listed in hs,
\* each count taken as the variables hold it.
RECURSIVE SumCounts(_)
SumCounts(hs) ==
    IF hs = {} THEN 0
    ELSE LET h == CHOOSE x \in hs : TRUE
         IN  qcount[h] + SumCounts(hs \ {h})

\* The list heads of CPU cpu whose count is not 0.
CountedHeads(cpu) == {h \in DOMAIN qcount : HeadCpu(h) = cpu}

(***************************************************************************)
(* C15: for every run queue, nr_running equals the sum of queues[c][l]     *)
(* .count over all classes and levels.  (The counters are unsigned 32-bit: *)
(* one held as a negative integer stands for that integer plus 2^32, so    *)
(* the values agree exactly if the integers agree and as many counts have  *)
(* wrapped below zero as nr_running has, that is one or none.)             *)
(***************************************************************************)
NrRunningIsSum ==
    ~sfault =>
        \A cpu \in Cpus :
            /\ nr_running[cpu] = SumCounts(CountedHeads(cpu))
            /\ Cardinality({h \in CountedHeads(cpu) : qcount[h] < 0})
                  = IF nr_running[cpu] < 0 THEN 1 ELSE 0

\* Eight Regular threads of base priority 16 are ready on CPU 0 and CPU 1
\* has nothing to run.
EightOnCpuZero ==
    /\ ~sfault
    /\ DOMAIN thr = Threads
    /\ nr_running[0] = 8 /\ nr_running[1] = 0
    /\ \A t \in UserThreads :
          /\ thr[t].state = "Ready"
          /\ thr[t].sched_class = SCHED_CLASS_REGULAR
          /\ thr[t].base_priority = 16
          /\ \A x \in LinkedAt(t) : HeadCpu(x[1]) = 0

\* Four threads are ready on each CPU, each preferring the CPU that holds it.
FourOnEach ==
    /\ nr_running[0] = 4 /\ nr_running[1] = 4
    /\ nr_running[0] + nr_running[1] = 8
    /\ \A t \in UserThreads :
          \A x \in LinkedAt(t) : thr[t].preferred_cpu = HeadCpu(x[1])

(* C19: with two CPUs, eight Regular threads of base priority 16 ready on  *)
(* CPU 0 and none on CPU 1, one call of trigger_load_balance from CPU 1    *)
(* leaves four ready threads on each CPU, each with preferred_cpu set to   *)
(* the CPU that holds it, and the nr_running values add up to 8.           *)
BalanceEvensOut ==
    [][(EightOnCpuZero /\ cpu_trigger_load_balance(1)) => FourOnEach']_vars

(* C33: for every run queue, class and level, queues[c][l].count is the    *)
(* number of threads linked in that FIFO: dequeue_thread counts down on    *)
(* the run queue whose list holds the thread, and schedule() links no      *)
(* thread that is linked already.                                          *)
CountIsFifoLength ==
    ~sfault =>
        \A cpu \in Cpus, c \in SchedClasses, l \in PrioLevels :
            QueueCount(cpu, c, l) =
                IF QueueHead(cpu, c, l) \in DOMAIN rlink
                THEN Len(FifoOf(QueueHead(cpu, c, l))) ELSE 0

\* The CPUs on whose FIFOs thread t is linked, with the lists as L has them.
QueueCpus(L, t) ==
    {HeadCpu(h) : h \in {g \in DOMAIN L \cap QueueHeads :
                            t \in SeqToSet(ListFrom(L, g, Node(L, g).next, NThreads + 1))}}

\* The sum of nr_running over the CPUs in cs.
RECURSIVE SumRunning(_, _)
SumRunning(nr, cs) ==
    IF cs = {} THEN 0
    ELSE LET c == CHOOSE x \in cs : TRUE
         IN  nr[c] + SumRunning(nr, cs \ {c})

(* C35: a call of trigger_load_balance moves at most one thread, and none  *)
(* when no other CPU's load is more than 1 above the caller's; the thread  *)
(* it moves is not Bound, has the caller in its affinity mask and last ran *)
(* 1 ms ago or longer; after the call it is Ready on the caller's queue    *)
(* with preferred_cpu the caller and without the Migrating flag, and the   *)
(* sum of nr_running over the run queues is what it was.  (The loads are   *)
(* compared as the unsigned numbers they are.)                             *)
BalanceMovesOneColdThread ==
    [][LET moved == {t \in DOMAIN thr :
                        /\ QueueCpus(rlink, t) # {}
                        /\ QueueCpus(rlink', t) # {}
                        /\ QueueCpus(rlink', t) # QueueCpus(rlink, t)}
       IN  ~sfault' =>
              /\ Cardinality(moved) <= 1
              /\ \A t \in moved :
                    \E c \in Cpus :
                       /\ QueueCpus(rlink', t) = {c}
                       /\ \E d \in QueueCpus(rlink, t) :
                             LoadExceeds(nr_running[d], nr_running[c])
                       /\ "BOUND" \notin thr[t].flags
                       /\ c \in thr[t].cpu_affinity
                       /\ now - thr[t].last_run >= 1
                       /\ thr'[t].state = "Ready"
                       /\ thr'[t].preferred_cpu = c
                       /\ "MIGRATING" \notin thr'[t].flags
              /\ moved # {} =>
                    SumRunning(nr_running', Cpus) = SumRunning(nr_running, Cpus)]_vars

\* trigger_load_balance on CPU 1 has moved a thread that never ran and has
\* left on CPU 0 a thread that ran within this millisecond.
BalanceMovesOneColdThreadWitness ==
    /\ ~sfault
    /\ \E t, u \in DOMAIN thr \cap UserThreads :
          /\ thr[t].preferred_cpu = 1
          /\ thr[t].state = "Ready"
          /\ thr[t].last_run = 0
          /\ QueueCpus(rlink, t) = {1}
          /\ thr[u].state = "Ready"
          /\ thr[u].last_run = now
          /\ QueueCpus(rlink, u) = {0}

\* The threads that wait on a FIFO of CPU cpu with a dynamic priority
\* above that of thread cur, in scheduler state <<T, W>>.
Preempting(T, W, cpu, cur) ==
    {t \in DOMAIN T \cap UserThreads :
        /\ T[t].state = "Ready"
        /\ WaitingOn(W, t) # NULL
        /\ HeadCpu(WaitingOn(W, t)) = cpu
        /\ T[t].dynamic_priority > T[cur].dynamic_priority}

(* C32: when enqueue_thread queues a thread on a run queue whose current   *)
(* thread has a lower dynamic priority, that current thread has            *)
(* NeedReschedule after the call; and when a CPU whose current thread has  *)
(* NeedReschedule and is outranked by a waiting thread calls schedule(),   *)
(* an outranking thread runs next and the preempted thread is Ready on the *)
(* FIFO of its class and level on that CPU.                                *)
EnqueuePreempts ==
    /\ [][\A cpu \in Cpus :
            (/\ ~sfault'
             /\ rq_current[cpu] # NULL
             /\ rq_current'[cpu] = rq_current[cpu]
             /\ \E t \in Preempting(thr', waiting', cpu, rq_current[cpu]) :
                   t \notin DOMAIN thr \/ thr[t].state = "Suspended")
            => "NEED_RESCHED" \in thr'[rq_current[cpu]].flags]_vars
    /\ [][\A cpu \in Cpus :
            (/\ ~sfault'
             /\ slast'.ran /\ slast'.cpu = cpu
             /\ rq_current[cpu] # NULL
             /\ thr[rq_current[cpu]].state = "Running"
             /\ "NEED_RESCHED" \in thr[rq_current[cpu]].flags
             /\ Preempting(thr, waiting, cpu, rq_current[cpu]) # {})
            => LET cur == rq_current[cpu]
               IN  /\ rq_current'[cpu] \in Preempting(thr, waiting, cpu, cur)
                   /\ cur \in UserThreads =>
                         /\ thr'[cur].state = "Ready"
                         /\ WaitingOn(waiting', cur) =
                               QueueHead(cpu, thr'[cur].sched_class, PrioLevel(thr'[cur]))]_vars

(* C37: the first DosResumeThread on a thread that DosCreateThread created *)
(* suspended, and that nobody suspended since, starts it: after the call   *)
(* the thread is Ready and linked on a run queue.                          *)
ResumeStartsCreatedSuspended ==
    [][\A t \in UserThreads :
          (/\ t \in DOMAIN thr
           /\ thr[t].state = "Suspended"
           /\ thr[t].suspend_count = 0
           /\ thr[t].last_run = 0
           /\ \E c \in Cpus : DosResumeThread(c, t))
          => /\ thr'[t].state = "Ready"
             /\ QueueCpus(rlink', t) # {}]_vars

(* C30: a schedule() on a CPU whose preempt counter is above 0 and whose    *)
(* current thread has not blocked itself returns without changing the      *)
(* current thread, the states of the threads or any run queue, whatever    *)
(* the other CPU has done to that thread before.                           *)
NoSwitchWhilePreemptOff ==
    [][\A c \in Cpus :
          (/\ cpu_schedule(c)
           /\ preempt_counter[c] > 0
           /\ rq_current[c] # NULL
           /\ thr[rq_current[c]].state # "Blocked")
          => UNCHANGED <<rq_current, thr, rlink, qcount, nr_running>>]_vars

(* C21: a thread that was suspended while Ready or Running and whose        *)
(* suspend count DosResumeThread has not yet brought back to 0 is           *)
(* Suspended and on no run queue: it is enqueued only by the resume that    *)
(* takes the count to 0.                                                    *)
SuspendedOffQueue ==
    ~sfault =>
        \A t \in DOMAIN thr \cap UserThreads :
            (thr[t].suspend_count > 0 /\ thr[t].state = "Suspended") => LinkedAt(t) = {}

(* C20: DosExitCritSec called by a thread with no outstanding              *)
(* DosEnterCritSec of its own returns ERROR_CRITSEC_UNDERFLOW, leaves the  *)
(* preempt counter of the calling CPU as it is and does not release the    *)
(* critical-section lock, whatever the other threads have entered.         *)
ExitUnderflows ==
    [][\A c \in Cpus :
          (rq_current[c] \in UserThreads /\ centered[rq_current[c]] = 0 /\ DosExitCritSec(c)) =>
              /\ cret' = "ERROR_CRITSEC_UNDERFLOW"
              /\ preempt_counter'[c] = preempt_counter[c]
              /\ critsec_lock' = critsec_lock]_vars

(* C40: DosEnterCritSec returns to a thread that is inside a critical      *)
(* section already: the thread is never in the spin loop of spin_lock on   *)
(* the critical-section lock while it is the one thread that has entered   *)
(* and not left, and no other thread waits for the lock.                   *)
NestedEnterReturns ==
    ~sfault =>
        \A t \in DOMAIN cspin :
            ~ /\ centered[t] > 0
              /\ \A u \in UserThreads \ {t} : centered[u] = 0 /\ u \notin DOMAIN cspin

(***************************************************************************)
(*                  PROPERTIES OF THE BRING-UP                             *)
(***************************************************************************)

\* The bring-up on its own.
BootSpecInit == BootInit /\ LockQuiet /\ NumaInit /\ SchedInit /\ CritInit /\ UnitInit
BootSpec == BootSpecInit /\ [][BootNext]_vars

(* C16: at every point during and after boot, every CPU in the online mask *)
(* has a non-null run queue.                                               *)
OnlineHasRunQueue == \A c \in online_mask : runqueues[c]

(* C27: when acpi_parse_madt fails, smp_init returns with cpu_count = 1 and *)
(* a uniprocessor topology: CPU 0 has a processor record in state Online,  *)
(* is in the online mask and has a run queue.  (Only the parse failure     *)
(* takes smp_init from its start to its return with cpu_count = 1.)        *)
UpFallbackIsComplete ==
    [][(bsp.pc = "smp_init" /\ bsp'.pc = "done" /\ cpu_count' = 1) =>
           (cpu_state'[0] = "Online" /\ 0 \in online_mask' /\ runqueues'[0])]_vars

\* The BSP is through with smp_boot_cpu(c) and did send c the STARTUP IPI.
BootTried(c) ==
    /\ cpu_state[c] \in {"Starting", "Online", "Offline"}
    /\ bsp.i > c \/ bsp.pc = "done"

(* C17: an AP that does not set the done flag inside the wait loop of its  *)
(* smp_boot_cpu is left Offline, outside the online and the active mask,   *)
(* and is not counted in cpu_count.                                        *)
TimedOutStaysOffline ==
    ~bfault =>
        /\ \A c \in BootAps :
              (BootTried(c) /\ c \notin intime) =>
                  /\ cpu_state[c] = "Offline"
                  /\ c \notin online_mask
                  /\ c \notin active_mask
        /\ cpu_count <= 1 + Cardinality({c \in BootAps : BootTried(c) /\ c \in intime})

(* C36: a CPU is Online only if it set the done flag itself while the BSP  *)
(* waited for it in its own smp_boot_cpu, so that a late handshake of an   *)
(* AP that timed out is not credited to a later CPU; and an AP that has    *)
(* entered ap_entry works on the record and run queue of its own id.       *)
HandshakeIsOwn ==
    ~bfault =>
        /\ \A c \in BootAps : cpu_state[c] = "Online" => c \in intime
        /\ \A h \in BootAps :
              ap[h].pc \in {"sched_init_cpu", "signal", "idle"} => ap[h].cpu_id = h

\* The allocator on its own: the other subsystems stay as initialised.
NumaSpecInit ==
    /\ \E d \in {DefaultDistance, SlitDistance} : NumaBoot(d)
    /\ LockQuiet /\ SchedInit /\ BootInit /\ CritInit /\ UnitInit
NumaSpec == NumaSpecInit /\ [][NumaNext]_vars

\* The lock on its own.
LockSpecInit == LockInit /\ NumaInit /\ SchedInit /\ BootInit /\ CritInit /\ UnitInit
LockSpec == LockSpecInit /\ [][LockNext]_vars

RECURSIVE CountedPages(_, _)
CountedPages(n, k) ==
    IF k < 0 THEN 0 ELSE free_count[n][k] * Pow2(k) + CountedPages(n, k - 1)

(***************************************************************************)
(* C5: for every node, free_pages equals the sum over all orders k of      *)
(* free_count[k] * 2^k.  (A counter kept as a negative integer stands for  *)
(* a value of 2^32 - 1 or so, which no sum of this model equals.)          *)
(***************************************************************************)
FreePagesIsSum ==
    \A n \in NumaNodes :
        /\ free_pages[n] >= 0
        /\ \A k \in Orders : free_count[n][k] >= 0
        /\ free_pages[n] = CountedPages(n, MAX_ORDER - 1)

\* The free blocks <<pfn, order>> of node n, as its free lists hold them.
FreeSet(n) == {<<p, k>> : p \in Pfns, k \in Orders} \cap
              UNION {{<<p, k>> : p \in SeqToSet(FreeBlocks(nlink, n, k))} : k \in Orders}

BlockPages(b) == b[1] .. (b[1] + Pow2(b[2]) - 1)

(***************************************************************************)
(* C6: on every node no two blocks of the free lists overlap, and no two   *)
(* free blocks of the same order k < MAX_ORDER-1 are buddies of each       *)
(* other.                                                                  *)
(***************************************************************************)
FreeListsDisjointMerged ==
    \A n \in NumaNodes : \A b1, b2 \in FreeSet(n) :
        b1 # b2 =>
            /\ BlockPages(b1) \cap BlockPages(b2) = {}
            /\ ~(b1[2] = b2[2] /\ b1[2] < MAX_ORDER - 1 /\ b2[1] = BuddyPfn(b1[1], b1[2]))

(***************************************************************************)
(* C7: numa_alloc_pages(n, k) served by node n itself, followed by         *)
(* numa_free_pages of the returned block, restores free_pages of n.        *)
(***************************************************************************)
RoundTripFreePages ==
    (nlast.op = "alloc_free" /\ nlast.node = nlast.req) =>
        free_pages[nlast.req] = nlast.fp[nlast.req]

(***************************************************************************)
(* C8: if an order-k allocation is satisfied by splitting a free block of  *)
(* order k+1, freeing the returned block coalesces it with its buddy: the  *)
(* order-(k+1) block is on the order-(k+1) free list again and the order-k *)
(* free list is as it was before the allocation.                           *)
(***************************************************************************)
SplitThenFreeRestores ==
    (nlast.op = "alloc_free" /\ nlast.node = nlast.req /\ nlast.from = nlast.order + 1) =>
        /\ nlast.ptr \in SeqToSet(FreeBlocks(nlink, nlast.req, nlast.order + 1))
        /\ FreeBlocks(nlink, nlast.req, nlast.order) = nlast.lists[nlast.req][nlast.order]

(***************************************************************************)
(* C28: when every block is freed at most once and with the order it was   *)
(* allocated with, no two live allocations overlap and no page of a live   *)
(* allocation lies in a block of a free list: numa_free_pages merges only  *)
(* with a buddy that is free, and numa_alloc_pages hands out no page of a  *)
(* live allocation.                                                        *)
(***************************************************************************)
LiveBlocksApart ==
    ~nfault =>
        /\ \A b1, b2 \in held : b1 # b2 => BlockPages(b1) \cap BlockPages(b2) = {}
        /\ \A b \in held, n \in NumaNodes :
               \A f \in FreeSet(n) : BlockPages(b) \cap BlockPages(f) = {}

(* C38: numa_alloc_pages(node, k) returns null only if no node has a free  *)
(* block of order k or higher; a fallback node that holds larger blocks    *)
(* only serves the request by splitting one.                               *)
NullOnlyIfNoBlockAnywhere ==
    (~nfault /\ nlast.op = "alloc" /\ nlast.ptr = NULL) =>
        \A n \in NumaNodes, k \in Orders :
            k >= nlast.order => nlast.lists[n][k] = <<>>

\* The nodes other than n whose free_list[k] held a block before the
\* last call.
OtherNodesWith(n, k) == {j \in NumaNodes \ {n} : nlast.lists[j][k] # <<>>}

\* The node of js nearest to n, the lowest index among equally near ones.
Nearest(n, js) ==
    CHOOSE j \in js : \A i \in js :
        \/ ndistance[n][j] < ndistance[n][i]
        \/ ndistance[n][j] = ndistance[n][i] /\ j <= i

\* The requested node of the last call had no free block of the order
\* asked for or of a higher one.
RequestedNodeEmpty ==
    \A k \in Orders : k >= nlast.order => nlast.lists[nlast.req][k] = <<>>

(***************************************************************************)
(* C18: when the requested node cannot serve an order-k allocation,        *)
(* numa_alloc_pages returns the first order-k block of the nearest other   *)
(* node that has one (equally near nodes by ascending index), NULL if no   *)
(* node has one; the page belongs to that node, and a numa_free_pages of   *)
(* it leaves it free on that node and on no list of the requested node.    *)
(***************************************************************************)
FallbackNearestNode ==
    (~nfault /\ nlast.op \in {"alloc", "alloc_free"} /\ RequestedNodeEmpty) =>
        LET js == OtherNodesWith(nlast.req, nlast.order)
        IN  IF js = {} THEN nlast.ptr = NULL
            ELSE /\ nlast.node = Nearest(nlast.req, js)
                 /\ nlast.ptr = nlast.lists[nlast.node][nlast.order][1]
                 /\ PageNode(nlast.ptr) = nlast.node
                 /\ nlast.op = "alloc_free" =>
                      /\ \E b \in FreeSet(nlast.node) : nlast.ptr \in BlockPages(b)
                      /\ \A b \in FreeSet(nlast.req) : nlast.ptr \notin BlockPages(b)

\* A request to a node with nothing free was served by the nearest of two
\* other nodes that could, which is not the one of lowest index, and the
\* page was freed again.
FallbackNearestNodeWitness ==
    /\ ~nfault /\ nlast.op = "alloc_free" /\ RequestedNodeEmpty
    /\ Cardinality(OtherNodesWith(nlast.req, nlast.order)) >= 2
    /\ nlast.node = Nearest(nlast.req, OtherNodesWith(nlast.req, nlast.order))
    /\ \E j \in OtherNodesWith(nlast.req, nlast.order) : j < nlast.node

(***************************************************************************)
(* C9: acquirers enter the critical section in the order in which they     *)
(* drew their tickets: the holder drew before every CPU still spinning (no *)
(* later spin_lock or spin_trylock caller overtakes a waiter), and a       *)
(* waiter that drew its ticket with N tickets outstanding has seen at most *)
(* N spin_unlock calls, and enters after exactly N.                        *)
(***************************************************************************)
TicketFifo ==
    \A c \in LockCpus :
        /\ lcpu[c].pc = "spin" =>
              /\ lcpu[c].waited <= lcpu[c].ahead
              /\ \A d \in LockCpus : lcpu[d].pc = "cs" => lcpu[d].seq < lcpu[c].seq
        /\ lcpu[c].pc = "cs" => lcpu[c].waited = lcpu[c].ahead

\* A CPU is in the critical section after waiting for two earlier tickets
\* while a later acquirer spins behind it.
TicketFifoWitness ==
    \E c, d \in LockCpus :
        /\ lcpu[c].pc = "cs" /\ lcpu[c].ahead = 2 /\ lcpu[c].waited = 2
        /\ lcpu[d].pc = "spin" /\ lcpu[d].seq > lcpu[c].seq

(***************************************************************************)
(*        PRIORITY ARITHMETIC: include/os3/scheduler.h, scheduler.c        *)
(*                                                                         *)
(* The priority mapping and the priority boost on one thread, with the     *)
(* widths of the C types: prtyclass, prtylevel, dynamic_priority and       *)
(* boost_ticks are uint8_t, priority_boost is int8_t.                      *)
(***************************************************************************)
SCHED_CLASS_REALTIME == 4
MAX_PRIORITY == 159
MIN_PRIORITY == 0
\* Priority calls per behaviour, and the longest boost in ticks.
MaxPrioOps == 1
MaxBoostTicks == 2
\* The arguments of the calls: OS/2 classes and deltas, int8_t boosts.
ExternalClasses == 1 .. 4
Deltas == (0 - 31) .. 31
Boosts == (0 - 128) .. 127

\* boost_thread_priority(thread, boost, duration) on the priority fields th
boost_thread_priority(th, boost, duration) ==
    LET sum == ToByte(th.base_priority + boost)
        hi == IF sum > MAX_PRIORITY THEN MAX_PRIORITY ELSE sum
        lo == IF hi < MIN_PRIORITY THEN MIN_PRIORITY ELSE hi
    IN  [th EXCEPT !.priority_boost = boost,
                   !.boost_ticks = duration,
                   !.dynamic_priority = lo]

\* The boost decay of sched_tick on the priority fields of the running thread
sched_tick_boost(th) ==
    IF th.boost_ticks > 0
    THEN IF th.boost_ticks - 1 = 0
         THEN [th EXCEPT !.boost_ticks = 0,
                         !.priority_boost = 0,
                         !.dynamic_priority = th.base_priority]
         ELSE [th EXCEPT !.boost_ticks = th.boost_ticks - 1]
    ELSE th

\* A caller maps an OS/2 class and delta.
call_os2_to_internal_priority(class, delta) ==
    /\ pops > 0
    /\ pops' = pops - 1
    /\ pcall' = [fn |-> "os2_to_internal_priority", a |-> class, b |-> delta,
                 ret |-> os2_to_internal_priority(ToByte(class), ToByte(delta))]
    /\ UNCHANGED pthr
    /\ PrioOnly

\* A caller boosts the thread.
call_boost_thread_priority(boost, duration) ==
    /\ pops > 0
    /\ pops' = pops - 1
    /\ pthr' = boost_thread_priority(pthr, boost, duration)
    /\ pcall' = [fn |-> "boost_thread_priority", a |-> boost, b |-> duration,
                 ret |-> pthr'.dynamic_priority]
    /\ PrioOnly

\* The timer ticks while the thread runs and its boost has not run out.
prio_sched_tick ==
    /\ pthr.boost_ticks > 0
    /\ pthr' = sched_tick_boost(pthr)
    /\ pcall' = [fn |-> "sched_tick"]
    /\ UNCHANGED pops
    /\ PrioOnly

PrioNext ==
    \/ \E class \in ExternalClasses, delta \in Deltas :
           call_os2_to_internal_priority(class, delta)
    \/ \E boost \in Boosts, duration \in 0 .. MaxBoostTicks :
           call_boost_thread_priority(boost, duration)
    \/ prio_sched_tick

\* The thread is as apply_priority_change leaves it: any class an OS/2
\* caller can set, any base priority in 0 .. 31, no boost.
PrioInit ==
    /\ \E class \in SCHED_CLASS_IDLE .. SCHED_CLASS_SERVER, base \in 0 .. 31 :
           pthr = [sched_class |-> class, base_priority |-> base,
                   dynamic_priority |->
                       os2_to_internal_priority(class + 1, ToByte(base - 16)),
                   priority_boost |-> 0, boost_ticks |-> 0]
    /\ pcall = [fn |-> "none"]
    /\ pops = MaxPrioOps

PrioSpecInit ==
    PrioInit /\ LockQuiet /\ NumaInit /\ SchedInit /\ BootInit /\ CritInit
        /\ OrderInit /\ CallQuiet /\ RwInit /\ PickInit
PrioSpec == PrioSpecInit /\ [][PrioNext]_vars

\* v clamped into lo .. hi
Clamp(v, lo, hi) == IF v < lo THEN lo ELSE IF v > hi THEN hi ELSE v

(***************************************************************************)
(* C22: for every external class 1 .. 4 and every delta in -31 .. 31 the   *)
(* mapping gives the internal class Idle, Regular, TimeCritical or Server  *)
(* respectively and the level (delta + 31) / 2 clamped into 0 .. 31, and   *)
(* never the Realtime class.                                               *)
(***************************************************************************)
MappingIsClampedHalf ==
    pcall.fn = "os2_to_internal_priority" =>
        /\ pcall.ret \div PRIO_LEVELS_PER_CLASS = pcall.a - 1
        /\ pcall.ret \div PRIO_LEVELS_PER_CLASS # SCHED_CLASS_REALTIME
        /\ pcall.ret % PRIO_LEVELS_PER_CLASS = Clamp((pcall.b + 31) \div 2, 0, 31)

(***************************************************************************)
(* C23: right after boost_thread_priority the dynamic priority is the base *)
(* priority plus the boost, clamped into MIN_PRIORITY .. MAX_PRIORITY (0   *)
(* when the sum is negative), and the dynamic priority stays inside that   *)
(* range while the boost decays.                                           *)
(***************************************************************************)
BoostIsClampedSum ==
    /\ pthr.dynamic_priority \in MIN_PRIORITY .. MAX_PRIORITY
    /\ pcall.fn = "boost_thread_priority" =>
           pcall.ret = Clamp(pthr.base_priority + pcall.a, MIN_PRIORITY, MAX_PRIORITY)

(***************************************************************************)
(*       LOCK NESTING: kernel/mm/numa.c, kernel/sched/scheduler.c          *)
(*                                                                         *)
(* Every function of the allocator and of the scheduler that takes a lock, *)
(* as the sequence of its spin_lock_irqsave and spin_unlock_irqrestore     *)
(* calls and of the calls it makes in between.  What the function finds in *)
(* the data under the lock is a free choice.  A CPU is inside a stack of   *)
(* frames; the timer interrupt adds a frame whenever the interrupt flag is *)
(* set.  A thread that schedule() switches out is inside context_switch,   *)
(* so the thread a CPU resumes there brings no lock with it.               *)
(***************************************************************************)
KFrame(fn, a, o) ==
    [fn |-> fn, pc |-> "entry", a |-> a, o |-> o, i |-> 0, flags |-> TRUE, ret |-> FALSE]
KTop(c) == kstack[c][Len(kstack[c])]
KInside(c, fn) == kstack[c] # <<>> /\ KTop(c).fn = fn
\* The three variables as one value, and a value installed as the next state.
KS == [klock |-> klock, kstack |-> kstack, kif |-> kif]
KInstall(n) ==
    /\ klock' = n.klock
    /\ kstack' = n.kstack
    /\ kif' = n.kif
    /\ OrderOnly
\* The top frame of CPU c becomes f.
KSet(ks, c, f) == [ks EXCEPT !.kstack[c] = [@ EXCEPT ![Len(@)] = f]]
\* spin_lock_irqsave(l, &flags) by the top frame of c, once l is free
KAcq(ks, c, l, f) ==
    [KSet(ks, c, [f EXCEPT !.flags = ks.kif[c]]) EXCEPT !.klock[l] = c, !.kif[c] = FALSE]
\* spin_unlock_irqrestore(l, flags) by the top frame of c
KRel(ks, c, l, f) ==
    [KSet(ks, c, f) EXCEPT !.klock[l] = NULL, !.kif[c] = f.flags]
\* The top frame of c calls g.
KCall(ks, c, f, g) == [KSet(ks, c, f) EXCEPT !.kstack[c] = Append(@, g)]
\* The top frame of c returns r to its caller.
KRet(ks, c, r) ==
    LET rest == SubSeq(ks.kstack[c], 1, Len(ks.kstack[c]) - 1)
    IN  [ks EXCEPT !.kstack[c] =
            IF rest = <<>> THEN rest
            ELSE [rest EXCEPT ![Len(rest)] = [@ EXCEPT !.ret = r]]]

\* numa_alloc_pages with the lock of node f.a released and nothing handed out
\* yet (line 226), but the lock is kept.
alloc_first_miss_keep(ks, c, f) ==
    KSet(ks, c, [f EXCEPT !.pc = "split", !.i = f.o + 1])

\* numa_alloc_pages found free_count[order] = 0 on the requested node:
\* lines 226-229
alloc_first_miss(ks, c, f) ==
    KRel(ks, c, NodeLock(f.a), [f EXCEPT !.pc = "split", !.i = f.o + 1])

\* A CPU that is inside no function calls one, with interrupts enabled.
k_call(c, fn, a, o) ==
    /\ kstack[c] = <<>>
    /\ kif[c]
    /\ KInstall([KS EXCEPT !.kstack[c] = <<KFrame(fn, a, o)>>])

\* numa_alloc_pages(node, order), one step
k_numa_alloc_pages(c) ==
    /\ KInside(c, "numa_alloc_pages")
    /\ LET f == KTop(c)
           l == NodeLock(f.a)
       IN  \/ /\ f.pc = "entry"
              /\ klock[l] = NULL
              /\ KInstall(KAcq(KS, c, l, [f EXCEPT !.pc = "first"]))
           \/ /\ f.pc = "first"
              /\ \E found \in BOOLEAN :
                     KInstall(IF found THEN KRet(KRel(KS, c, l, f), c, TRUE)
                              ELSE alloc_first_miss(KS, c, f))
           \/ /\ f.pc = "split"
              /\ IF f.i < MAX_ORDER
                 THEN /\ klock[l] = NULL
                      /\ KInstall(KAcq(KS, c, l, [f EXCEPT !.pc = "split_locked"]))
                 ELSE KInstall(KSet(KS, c, [f EXCEPT !.pc = "fallback", !.i = 1]))
           \/ /\ f.pc = "split_locked"
              /\ \E found \in BOOLEAN :
                     KInstall(IF found THEN KRet(KRel(KS, c, l, f), c, TRUE)
                              ELSE KRel(KS, c, l, [f EXCEPT !.pc = "split", !.i = f.i + 1]))
           \/ /\ f.pc = "fallback"
              /\ KInstall(IF f.i < NumNodes
                          THEN KCall(KS, c, [f EXCEPT !.pc = "fallback_ret"],
                                     KFrame("numa_alloc_pages_strict",
                                            fallback(f.a)[f.i + 1], f.o))
                          ELSE KRet(KS, c, FALSE))
           \/ /\ f.pc = "fallback_ret"
              /\ KInstall(IF f.ret THEN KRet(KS, c, TRUE)
                          ELSE KSet(KS, c, [f EXCEPT !.pc = "fallback", !.i = f.i + 1]))

\* numa_alloc_pages_strict(node, order), one step
k_numa_alloc_pages_strict(c) ==
    /\ KInside(c, "numa_alloc_pages_strict")
    /\ LET f == KTop(c)
           l == NodeLock(f.a)
       IN  \/ /\ f.pc = "entry"
              /\ klock[l] = NULL
              /\ KInstall(KAcq(KS, c, l, [f EXCEPT !.pc = "locked"]))
           \/ /\ f.pc = "locked"
              /\ \E found \in BOOLEAN : KInstall(KRet(KRel(KS, c, l, f), c, found))

\* numa_free_pages(ptr, order) of a block of node f.a, one step
k_numa_free_pages(c) ==
    /\ KInside(c, "numa_free_pages")
    /\ LET f == KTop(c)
           l == NodeLock(f.a)
       IN  \/ /\ f.pc = "entry"
              /\ klock[l] = NULL
              /\ KInstall(KAcq(KS, c, l, [f EXCEPT !.pc = "locked"]))
           \/ /\ f.pc = "locked"
              /\ KInstall(KRet(KRel(KS, c, l, f), c, FALSE))

\* enqueue_thread and dequeue_thread on the run queue of CPU f.a, one step
k_enqueue_dequeue_thread(c) ==
    /\ kstack[c] # <<>>
    /\ KTop(c).fn \in {"enqueue_thread", "dequeue_thread"}
    /\ LET f == KTop(c)
           l == RqLock(f.a)
       IN  \/ /\ f.pc = "entry"
              /\ klock[l] = NULL
              /\ KInstall(KAcq(KS, c, l, [f EXCEPT !.pc = "locked"]))
           \/ /\ f.pc = "locked"
              /\ KInstall(KRet(KRel(KS, c, l, f), c, FALSE))

\* schedule() on CPU c, one step
k_schedule(c) ==
    /\ KInside(c, "schedule")
    /\ LET f == KTop(c)
           l == RqLock(c)
       IN  \/ /\ f.pc = "entry"
              /\ \/ KInstall(KRet(KS, c, FALSE))
                 \/ /\ klock[l] = NULL
                    /\ KInstall(KAcq(KS, c, l, [f EXCEPT !.pc = "locked"]))
           \/ /\ f.pc = "locked"
              /\ \E switch \in BOOLEAN :
                     KInstall(IF switch THEN KRel(KS, c, l, [f EXCEPT !.pc = "context_switch"])
                              ELSE KRet(KRel(KS, c, l, f), c, FALSE))
           \/ /\ f.pc = "context_switch"
              /\ KInstall(KRet(KS, c, FALSE))

\* trigger_load_balance() on CPU c with busiest CPU f.a, one step
k_trigger_load_balance(c) ==
    /\ KInside(c, "trigger_load_balance")
    /\ LET f == KTop(c)
           l == RqLock(f.a)
       IN  \/ /\ f.pc = "entry"
              /\ IF f.a = c THEN KInstall(KRet(KS, c, FALSE))
                 ELSE /\ klock[l] = NULL
                      /\ KInstall(KAcq(KS, c, l, [f EXCEPT !.pc = "locked"]))
           \/ /\ f.pc = "locked"
              /\ \E found \in BOOLEAN :
                     KInstall(IF found
                              THEN KCall(KRel(KS, c, l, f), c, [f EXCEPT !.pc = "moved"],
                                         KFrame("enqueue_thread", c, 0))
                              ELSE KRet(KRel(KS, c, l, f), c, FALSE))
           \/ /\ f.pc = "moved"
              /\ KInstall(KRet(KS, c, FALSE))

\* set_thread_affinity(thread, mask) of a thread with last_cpu f.a, one step
k_set_thread_affinity(c) ==
    /\ KInside(c, "set_thread_affinity")
    /\ LET f == KTop(c)
       IN  \/ /\ f.pc = "entry"
              /\ klock[GlobalLock] = NULL
              /\ KInstall(KAcq(KS, c, GlobalLock, [f EXCEPT !.pc = "locked"]))
           \/ /\ f.pc = "locked"
              /\ \E migrate \in BOOLEAN :
                     KInstall(IF migrate
                              THEN KCall(KS, c, [f EXCEPT !.pc = "dequeued"],
                                         KFrame("dequeue_thread", f.a, 0))
                              ELSE KRet(KRel(KS, c, GlobalLock, f), c, FALSE))
           \/ /\ f.pc = "dequeued"
              /\ \E cpu \in Cpus :
                     KInstall(KCall(KS, c, [f EXCEPT !.pc = "enqueued"],
                                    KFrame("enqueue_thread", cpu, 0)))
           \/ /\ f.pc = "enqueued"
              /\ KInstall(KRet(KRel(KS, c, GlobalLock, f), c, FALSE))

\* The timer interrupts CPU c: apic_timer_handler, one step.  The gate clears
\* the interrupt flag and the return restores it.
k_apic_timer_handler(c) ==
    \/ /\ kif[c]
       /\ ~ \E j \in 1 .. Len(kstack[c]) : kstack[c][j].fn = "apic_timer_handler"
       /\ KInstall([KS EXCEPT !.kstack[c] = Append(@, KFrame("apic_timer_handler", c, 0)),
                              !.kif[c] = FALSE])
    \/ /\ KInside(c, "apic_timer_handler")
       /\ LET f == KTop(c)
          IN  \/ /\ f.pc = "entry"
                 /\ \E need_resched \in BOOLEAN :
                        KInstall(IF need_resched
                                 THEN KCall(KS, c, [f EXCEPT !.pc = "done"],
                                            KFrame("schedule", c, 0))
                                 ELSE KSet(KS, c, [f EXCEPT !.pc = "done"]))
              \/ /\ f.pc = "done"
                 /\ KInstall([KRet(KS, c, FALSE) EXCEPT !.kif[c] = TRUE])

OrderNext ==
    \/ \E c \in Cpus, n \in NumaNodes, o \in Orders : k_call(c, "numa_alloc_pages", n, o)
    \/ \E c \in Cpus, n \in NumaNodes : k_call(c, "numa_alloc_pages_strict", n, 0)
    \/ \E c \in Cpus, n \in NumaNodes : k_call(c, "numa_free_pages", n, 0)
    \/ \E c \in Cpus, d \in Cpus : k_call(c, "enqueue_thread", d, 0)
    \/ \E c \in Cpus, d \in Cpus : k_call(c, "dequeue_thread", d, 0)
    \/ \E c \in Cpus : k_call(c, "schedule", c, 0)
    \/ \E c \in Cpus, d \in Cpus : k_call(c, "trigger_load_balance", d, 0)
    \/ \E c \in Cpus, d \in Cpus : k_call(c, "set_thread_affinity", d, 0)
    \/ \E c \in Cpus : k_numa_alloc_pages(c)
    \/ \E c \in Cpus : k_numa_alloc_pages_strict(c)
    \/ \E c \in Cpus : k_numa_free_pages(c)
    \/ \E c \in Cpus : k_enqueue_dequeue_thread(c)
    \/ \E c \in Cpus : k_schedule(c)
    \/ \E c \in Cpus : k_trigger_load_balance(c)
    \/ \E c \in Cpus : k_set_thread_affinity(c)
    \/ \E c \in Cpus : k_apic_timer_handler(c)

OrderSpecInit ==
    OrderInit /\ LockQuiet /\ NumaInit /\ SchedInit /\ BootInit /\ CritInit /\ PrioQuiet
        /\ CallQuiet /\ RwInit /\ PickInit
OrderSpec == OrderSpecInit /\ [][OrderNext]_vars

\* The locks CPU c holds, of one kind
HeldBy(c, kind) == {l \in KLocks : klock[l] = c /\ l[1] = kind}

(***************************************************************************)
(* C24: no CPU holds two node locks at once, none holds two run-queue      *)
(* locks, none holds a node lock together with a run-queue lock, and a CPU *)
(* that has reached the context switch of schedule() holds no run-queue    *)
(* lock.                                                                   *)
(***************************************************************************)
LocksNeverNest ==
    \A c \in Cpus :
        /\ Cardinality(HeldBy(c, "node")) <= 1
        /\ Cardinality(HeldBy(c, "rq")) <= 1
        /\ HeldBy(c, "node") = {} \/ HeldBy(c, "rq") = {}
        /\ (KInside(c, "schedule") /\ KTop(c).pc = "context_switch") => HeldBy(c, "rq") = {}

\* A CPU holds the lock of a fallback node inside numa_alloc_pages for
\* another node, while the other CPU is at the context switch of a
\* schedule() that the timer interrupt called inside trigger_load_balance.
LocksNeverNestWitness ==
    \E c, d \in Cpus :
        /\ Len(kstack[c]) = 2
        /\ kstack[c][1].fn = "numa_alloc_pages"
        /\ kstack[c][2].fn = "numa_alloc_pages_strict"
        /\ kstack[c][2].a # kstack[c][1].a
        /\ klock[NodeLock(kstack[c][2].a)] = c
        /\ Len(kstack[d]) = 3
        /\ kstack[d][1].fn = "trigger_load_balance"
        /\ kstack[d][3].fn = "schedule"
        /\ kstack[d][3].pc = "context_switch"

(***************************************************************************)
(*        CROSS-CPU FUNCTION CALLS: kernel/smp/smp.c                       *)
(*                                                                         *)
(* smp_call_function in its steps, and ipi_call_handler on every CPU that  *)
(* has a call-function IPI pending and interrupts enabled.  Interrupts are *)
(* off on a CPU from the spin_lock_irqsave of smp_call_function to its     *)
(* spin_unlock_irqrestore.  The functions published are numbered 1, 2, ... *)
(* in the order of the calls.                                              *)
(***************************************************************************)
MaxCalls == 3

\* smp_call_function(func, arg, wait) on CPU c: local_irq_save
smp_call_function(c, wait) ==
    /\ ccalls > 0
    /\ c \in online_mask
    /\ ccpu[c].pc = "idle"
    /\ ccalls' = ccalls - 1
    /\ ccpu' = [ccpu EXCEPT ![c] = [pc |-> "spin", func |-> MaxCalls - ccalls + 1,
                                    wait |-> wait]]
    /\ UNCHANGED <<smp_ipi, smp_lock, cirr, cowed>>
    /\ CallOnly

\* spin_lock(&smp_info.global_lock), then ipi_func, ipi_arg and ipi_pending
\* are stored
smp_call_function_publish(c) ==
    /\ ccpu[c].pc = "spin"
    /\ smp_lock = NULL
    /\ smp_lock' = c
    /\ smp_ipi' = [func |-> ccpu[c].func, arg |-> ccpu[c].func, pending |-> cpu_count - 1]
    /\ ccpu' = [ccpu EXCEPT ![c].pc = "published"]
    /\ UNCHANGED <<cirr, cowed, ccalls>>
    /\ CallOnly

\* The CPUs smp_send_ipi_others(type) on CPU self sends an IPI to: the
\* online ones below cpu_count, self left out.
smp_send_ipi_others(self) ==
    {i \in CallCpus : i < cpu_count /\ i # self /\ i \in online_mask}

\* smp_send_ipi_others(IPI_CALL_FUNC) and func(arg) on the caller
smp_call_function_send(c) ==
    /\ ccpu[c].pc = "published"
    /\ cirr' = cirr \cup smp_send_ipi_others(c)
    /\ cowed' = cowed \cup {<<ccpu[c].func, d>> : d \in smp_send_ipi_others(c)}
    /\ ccpu' = [ccpu EXCEPT ![c].pc = "sent"]
    /\ UNCHANGED <<smp_ipi, smp_lock, ccalls>>
    /\ CallOnly

\* The wait loop, if wait is set, and spin_unlock_irqrestore
smp_call_function_return(c) ==
    /\ ccpu[c].pc = "sent"
    /\ ccpu[c].wait = 1 => smp_ipi.pending <= 0
    /\ smp_lock' = NULL
    /\ ccpu' = [ccpu EXCEPT ![c].pc = "idle"]
    /\ UNCHANGED <<smp_ipi, cirr, cowed, ccalls>>
    /\ CallOnly

\* The oldest function CPU c still owes a run of
OldestOwed(c) ==
    CHOOSE f \in 1 .. MaxCalls :
        /\ <<f, c>> \in cowed
        /\ \A g \in 1 .. MaxCalls : <<g, c>> \in cowed => f <= g

\* ipi_call_handler on CPU c, which has the IPI pending and interrupts on
ipi_call_handler(c) ==
    /\ c \in cirr
    /\ ccpu[c].pc = "idle"
    /\ cirr' = cirr \ {c}
    /\ smp_ipi' = [smp_ipi EXCEPT !.pending = smp_ipi.pending - 1]
    /\ cowed' = cowed \ {<<OldestOwed(c), c>>}
    /\ UNCHANGED <<smp_lock, ccpu, ccalls>>
    /\ CallOnly

CallNext ==
    \/ \E c \in CallCpus, wait \in {0, 1} : smp_call_function(c, wait)
    \/ \E c \in CallCpus : smp_call_function_publish(c)
    \/ \E c \in CallCpus : smp_call_function_send(c)
    \/ \E c \in CallCpus : smp_call_function_return(c)
    \/ \E c \in CallCpus : ipi_call_handler(c)

\* Every AP among CallCpus came up: these CPUs are all online and cpu_count
\* is their number.
CallSpecInit ==
    CallBoot(MaxCalls) /\ LockQuiet /\ NumaInit /\ SchedInit /\ PickBoot(CallCpus \ {0})
        /\ CritInit /\ PrioQuiet /\ OrderInit /\ RwInit /\ PickInit
CallSpec == CallSpecInit /\ [][CallNext]_vars

\* The same calls on the machine a bring-up left, whichever APs came up.
\* Every CPU goes on with the function it is in and takes an interrupt that
\* is pending while its interrupts are on; global_lock is a ticket lock, so
\* a CPU that spins on it gets it if it is released often enough.
CallFairInit ==
    /\ CallBoot(MaxCalls) /\ LockQuiet /\ NumaInit /\ SchedInit
    /\ \E up \in SUBSET (CallCpus \ {0}) : PickBoot(up)
    /\ CritInit /\ PrioQuiet /\ OrderInit /\ RwInit /\ PickInit

CallFairness ==
    \A c \in CallCpus :
        /\ SF_vars(smp_call_function_publish(c))
        /\ WF_vars(smp_call_function_send(c))
        /\ WF_vars(smp_call_function_return(c))
        /\ WF_vars(ipi_call_handler(c))

CallFairSpec == CallFairInit /\ [][CallNext]_vars /\ CallFairness

(***************************************************************************)
(* C39: smp_call_function(func, arg, 1) terminates: a CPU that has sent    *)
(* the call-function IPIs and waits for ipi_pending to reach 0 eventually  *)
(* leaves smp_call_function, also on a machine where an AP failed to come  *)
(* up.                                                                     *)
(***************************************************************************)
CallFunctionReturns ==
    \A c \in CallCpus :
        (ccpu[c].pc = "sent" /\ ccpu[c].wait = 1) ~> (ccpu[c].pc = "idle")

(***************************************************************************)
(* C25: at most one cross-CPU call is in flight: every CPU that was sent a *)
(* call-function IPI and has not run ipi_call_handler for it yet was sent  *)
(* it for the function that is published now, so no later                  *)
(* smp_call_function has overwritten the function, its argument and the    *)
(* pending count, whether the caller waits or not.                         *)
(***************************************************************************)
OneCallInFlight ==
    \A p \in cowed : p[1] = smp_ipi.func

(***************************************************************************)
(*        READ-WRITE SPINLOCK: include/os3/spinlock.h                      *)
(*                                                                         *)
(* read_lock, read_unlock, write_lock and write_unlock in their atomic     *)
(* steps.  rw->wait is a ticket lock: the CPUs that called spin_lock on it *)
(* are served in the order of their tickets.                               *)
(***************************************************************************)
\* read_lock, line 248: count = atomic_read(&rw->count)
read_lock(c) ==
    /\ rwcpu[c].pc \in {"idle", "read_lock"}
    /\ rwcpu' = [rwcpu EXCEPT ![c] = [pc |-> "read_cas", count |-> rw_count]]
    /\ UNCHANGED <<rw_count, rw_wait>>
    /\ RwOnly

\* read_lock, lines 249-253: the test and atomic_cmpxchg(count, count + 1)
read_lock_cas(c) ==
    /\ rwcpu[c].pc = "read_cas"
    /\ IF rwcpu[c].count >= 0 /\ rw_count = rwcpu[c].count
       THEN /\ rw_count' = rw_count + 1
            /\ rwcpu' = [rwcpu EXCEPT ![c] = [pc |-> "reading", count |-> 0]]
       ELSE /\ rwcpu' = [rwcpu EXCEPT ![c] = [pc |-> "read_lock", count |-> 0]]
            /\ UNCHANGED rw_count
    /\ UNCHANGED rw_wait
    /\ RwOnly

\* read_unlock: atomic_dec(&rw->count)
read_unlock(c) ==
    /\ rwcpu[c].pc = "reading"
    /\ rw_count' = rw_count - 1
    /\ rwcpu' = [rwcpu EXCEPT ![c].pc = "idle"]
    /\ UNCHANGED rw_wait
    /\ RwOnly

\* write_lock, line 262: spin_lock(&rw->wait) draws its ticket
write_lock(c) ==
    /\ rwcpu[c].pc = "idle"
    /\ rw_wait' = Append(rw_wait, c)
    /\ rwcpu' = [rwcpu EXCEPT ![c].pc = "write_lock"]
    /\ UNCHANGED rw_count
    /\ RwOnly

\* write_lock, lines 263-265: one pass of the loop on
\* atomic_cmpxchg(&rw->count, 0, -1), by the CPU that holds rw->wait
write_lock_cas(c) ==
    /\ rwcpu[c].pc = "write_lock"
    /\ Head(rw_wait) = c
    /\ IF rw_count = 0
       THEN /\ rw_count' = 0 - 1
            /\ rwcpu' = [rwcpu EXCEPT ![c].pc = "writing"]
       ELSE UNCHANGED <<rw_count, rwcpu>>
    /\ UNCHANGED rw_wait
    /\ RwOnly

\* write_unlock: atomic_set(&rw->count, 0) and spin_unlock(&rw->wait)
write_unlock(c) ==
    /\ rwcpu[c].pc = "writing"
    /\ rw_count' = 0
    /\ rw_wait' = Tail(rw_wait)
    /\ rwcpu' = [rwcpu EXCEPT ![c].pc = "idle"]
    /\ RwOnly

RwNext ==
    \/ \E c \in RwCpus : read_lock(c)
    \/ \E c \in RwCpus : read_lock_cas(c)
    \/ \E c \in RwCpus : read_unlock(c)
    \/ \E c \in RwCpus : write_lock(c)
    \/ \E c \in RwCpus : write_lock_cas(c)
    \/ \E c \in RwCpus : write_unlock(c)

RwSpecInit ==
    RwInit /\ LockQuiet /\ NumaInit /\ SchedInit /\ BootInit /\ CritInit
        /\ PrioQuiet /\ OrderInit /\ CallQuiet /\ PickInit

\* Every CPU that is inside a call keeps stepping, and every holder
\* releases; no CPU has to start a new call.  The writer's loop is given the
\* most it can ask for: a writer that finds the count at 0 again and again
\* does take the lock in one of its passes.
RwFairness ==
    \A c \in RwCpus :
        /\ WF_vars(rwcpu[c].pc = "read_lock" /\ read_lock(c))
        /\ WF_vars(read_lock_cas(c))
        /\ WF_vars(read_unlock(c))
        /\ SF_vars(write_lock_cas(c))
        /\ WF_vars(write_unlock(c))

RwFairSpec == RwSpecInit /\ [][RwNext]_vars /\ RwFairness

(***************************************************************************)
(* C26: a CPU that has called write_lock eventually holds the lock as      *)
(* writer, also while other CPUs keep calling read_lock and read_unlock,   *)
(* provided every holder releases and every CPU keeps stepping.            *)
(***************************************************************************)
WriterGetsLock ==
    \A c \in RwCpus : (rwcpu[c].pc = "write_lock") ~> (rwcpu[c].pc = "writing")

(***************************************************************************)
(* C29: the ticket lock excludes: at most one CPU is in the critical       *)
(* section, head = tail exactly when no CPU holds the lock or waits for    *)
(* it, and spin_trylock takes the lock only in a step that finds           *)
(* head = tail.                                                            *)
(***************************************************************************)
TicketMutex ==
    /\ [](/\ Cardinality({c \in LockCpus : lcpu[c].pc = "cs"}) <= 1
          /\ (lock.head = lock.tail) <=>
                 (\A c \in LockCpus : lcpu[c].pc \notin {"spin", "cs"}))
    /\ [][\A c \in LockCpus :
              (lcpu[c].pc = "try" /\ lcpu'[c].pc = "cs") => lock.head = lock.tail]_vars

\* One CPU is in the critical section that it entered with spin_trylock
\* (no ticket was outstanding), a second one spins behind it, and the third
\* is inside spin_trylock with a word it read while the lock was free.
TicketMutexWitness ==
    \E c, d, e \in LockCpus :
        /\ lcpu[c].pc = "cs" /\ lcpu[c].ahead = 0
        /\ lcpu[d].pc = "spin"
        /\ lcpu[e].pc = "try" /\ lcpu[e].old # head_tail(lock)

(***************************************************************************)
(*   CPU CHOICES ON THE MACHINE smp_init LEAVES                            *)
(*                                                                         *)
(* enqueue_thread chooses the CPU whose run queue takes a thread, and      *)
(* trigger_load_balance the CPU it pulls from.  Both read smp_info, which  *)
(* is what the bring-up above made of it: cpu_count counts the CPUs that   *)
(* came up, online_mask names them, runqueues[] holds the run queues that  *)
(* sched_init_cpu stored.  One call is looked at in a behaviour, on a      *)
(* machine whose bring-up is over.                                         *)
(***************************************************************************)
\* rq->nr_running goes from 0 to MaxLoad.
MaxLoad == 3

\* The test of DosSetThreadAffinity and of set_thread_affinity on a mask:
\* it names an online CPU below cpu_count.  CPU_AFFINITY_ALL passes it.
ValidMask(mask) == \E i \in 0 .. (cpu_count - 1) : i \in mask /\ i \in online_mask

\* "Select CPU for this thread" of enqueue_thread: preferred_cpu if the
\* mask allows it, else the first allowed CPU below cpu_count, else
\* cpu_count, with which the for loop ends.
SelectCpu(affinity, preferred_cpu) ==
    LET allowed == {cpu \in 0 .. (cpu_count - 1) : cpu \in affinity}
    IN  IF preferred_cpu \in affinity THEN preferred_cpu
        ELSE IF allowed = {} THEN cpu_count
        ELSE find_first_bit(allowed)

\* enqueue_thread(thread) up to rq = scheduler.runqueues[cpu], for a thread
\* with a mask that passed the test and with the preferred_cpu that
\* DosCreateThread or trigger_load_balance gave it (the CPU they ran on)
\* or that set_thread_affinity gave it (the first bit of the mask).
enqueue_thread_select(affinity, preferred_cpu) ==
    /\ ~bfault
    /\ bsp.pc = "done"
    /\ ~placed.called /\ ~picked.called
    /\ ValidMask(affinity)
    /\ preferred_cpu \in online_mask \/ preferred_cpu = find_first_bit(affinity)
    /\ LET cpu == SelectCpu(affinity, preferred_cpu)
       IN  placed' = [called |-> TRUE, affinity |-> affinity,
                      preferred_cpu |-> preferred_cpu, cpu |-> cpu,
                      online |-> cpu \in online_mask,
                      rq |-> cpu \in BootCpus /\ runqueues[cpu]]
    /\ UNCHANGED picked
    /\ PickOnly

\* The loop "find busiest CPU" of trigger_load_balance from CPU cpu on,
\* with the busiest CPU and the maximum load found so far; load[cpu] is
\* scheduler.runqueues[cpu]->nr_running.
RECURSIVE find_busiest(_, _, _, _, _)
find_busiest(load, this_cpu, cpu, busiest_cpu, max_load) ==
    IF cpu >= cpu_count THEN busiest_cpu
    ELSE IF cpu = this_cpu \/ cpu \notin online_mask
         THEN find_busiest(load, this_cpu, cpu + 1, busiest_cpu, max_load)
    ELSE IF load[cpu] > max_load + 1
         THEN find_busiest(load, this_cpu, cpu + 1, cpu, load[cpu])
    ELSE find_busiest(load, this_cpu, cpu + 1, busiest_cpu, max_load)

\* The run queues that exist and their loads: 0 stands for no run queue.
Loads == {load \in [BootCpus -> 0 .. MaxLoad] : \A c \in BootCpus : ~runqueues[c] => load[c] = 0}

\* trigger_load_balance() on CPU this_cpu up to "if (busiest_cpu ==
\* this_cpu) return".
trigger_load_balance_scan(this_cpu, load) ==
    /\ ~bfault
    /\ bsp.pc = "done"
    /\ ~placed.called /\ ~picked.called
    /\ this_cpu \in online_mask /\ runqueues[this_cpu]
    /\ picked' = [called |-> TRUE, this_cpu |-> this_cpu, load |-> load,
                  busiest_cpu |-> find_busiest(load, this_cpu, 0, this_cpu, load[this_cpu])]
    /\ UNCHANGED placed
    /\ PickOnly

PickNext ==
    \/ \E affinity \in SUBSET BootCpus, preferred_cpu \in BootCpus :
          enqueue_thread_select(affinity, preferred_cpu)
    \/ \E this_cpu \in BootCpus, load \in Loads :
          trigger_load_balance_scan(this_cpu, load)

PickSpecInit ==
    /\ \E up \in SUBSET BootAps : PickBoot(up)
    /\ LockQuiet /\ NumaInit /\ SchedInit /\ CritInit /\ UnitInit
PickSpec == PickSpecInit /\ [][PickNext]_vars

(* C31: enqueue_thread puts the thread on preferred_cpu if the affinity    *)
(* mask allows that CPU and else on the lowest CPU that is in the mask and *)
(* online; the CPU it chooses is online and has a run queue, whichever     *)
(* APs failed to come up.                                                  *)
EnqueueChoosesOnlineCpu ==
    placed.called =>
        /\ placed.cpu = IF placed.preferred_cpu \in placed.affinity
                        THEN placed.preferred_cpu
                        ELSE find_first_bit(placed.affinity \cap online_mask)
        /\ placed.online
        /\ placed.rq

(* C34: trigger_load_balance on a CPU pulls from the online CPU, other     *)
(* than itself, whose nr_running is largest, whenever that load is more    *)
(* than 1 above its own: for every set of online CPUs and all loads.       *)
BalancePicksBusiest ==
    picked.called =>
        LET others == online_mask \ {picked.this_cpu}
            top == {c \in others : \A d \in others : picked.load[d] <= picked.load[c]}
        IN  \A c \in top :
               picked.load[c] > picked.load[picked.this_cpu] + 1 =>
                   picked.busiest_cpu \in top

====
